---- MODULE Spec2Model ----
(***************************************************************************)
(* Model of docs_organiser: the worker-pool pipeline (Pipeline.Run and     *)
(* Pipeline.processFile), the classification retry loop                    *)
(* (MLXEngine.Categorize) and the move helper (fileops.MoveFile).          *)
(***************************************************************************)
EXTENDS Integers, Sequences, FiniteSets, TLC

\* ------------------------------------------------------------------ bounds
NumWorkers == 2
NumFiles == 5

Workers == 1..NumWorkers
Files == 1..NumFiles

\* jobs := make(chan FileJob, p.Workers*2)
QueueCap == NumWorkers * 2

\* maxRetries := 2 : the loop runs attempt = 0 .. maxRetries
maxRetries == 2

VARIABLES
    \* ---- Pipeline.Run
    ctxDone,        \* the parent context has been cancelled
    runPc,          \* position of Run: "scan", "send", "wait", "returned"
    nextFile,       \* the next file filepath.Walk visits
    walkErr,        \* the error filepath.Walk returned
    jobs,           \* the buffered channel, a sequence of job ids
    closed,         \* close(jobs) has happened
    ret,            \* the value Run returned
    TotalFiles, ProcessedFiles, FailedFiles,
    \* ---- one worker goroutine each
    wpc,            \* "select", "extract", "categorize", "move", "recovered", "exited"
    fileTimeout,    \* the deadline of the worker's fileCtx has passed, while a step
                    \* that consults fileCtx is still ahead
    catErr,         \* processFile's err != nil after Categorize
    \* ---- history
    deq,            \* per job, how many times it was received from the channel
    recvAfterFault  \* some worker has received a job after a sibling's fault

runVars == <<ctxDone, runPc, nextFile, walkErr, jobs, closed, ret,
             TotalFiles, ProcessedFiles, FailedFiles,
             wpc, fileTimeout, catErr, deq, recvAfterFault>>

\* the classification call checked on its own
VARIABLES
    call,           \* the Categorize call: the state of its retry loop
    callCtx,        \* the context passed to Categorize is done
    attempts,       \* the attempts made so far: whether a request went out, and
                    \* what the service answered
    validCategories \* MLXEngine.validCategories

catVars == <<call, callCtx, attempts, validCategories>>

\* MoveFile calls on one destination folder, checked on their own
VARIABLES
    before,         \* how many files the folder held before the first call
    fileContent,      \* per mover, the content of its source file
    srcExists,      \* per mover, its source file is still at its path
    dst,            \* the destination folder: per file name its content, 0 if absent
    mpc,            \* per mover, its position in MoveFile
    dstPath,        \* per mover, MoveFile's dstPath
    after           \* per mover, the movers that had returned when it was called

moveVars == <<before, fileContent, srcExists, dst, mpc, dstPath, after>>

\* what precedes the workers: main's configuration and Run's discovery
VARIABLES
    manual,         \* cfg.Categories, the manual list of the configuration
    destDir,        \* the destination folder as discoverCategories finds it
    registryWrites  \* how many times validCategories has been assigned

setupVars == <<manual, destDir, registryWrites>>

\* parseAndValidate applied to one reply
VARIABLES
    answer,         \* the reply: what stands before its object, the object, and
                    \* what stands after it
    parsed          \* what parseAndValidate returned for it

parseVars == <<answer, parsed>>

\* the part of Categorize that precedes its correction loop
VARIABLES
    doc,            \* the tokens of the text Categorize is called with
    text,           \* the tokens of the text that goes into userPrompt
    sumPc,          \* "start", "map" (inside MapReduceSummarize), "loop"
    sumText,        \* the text of the MapReduceSummarize call in progress
    chunkIdx,       \* the chunk summarizeChunk is called for next
    summaries,      \* the summaries of the chunks before it
    rounds,         \* the MapReduceSummarize calls that went on to chunk their text
    sumFailed       \* MapReduceSummarize has returned an error

sumVars == <<doc, text, sumPc, sumText, chunkIdx, summaries, rounds, sumFailed>>

\* NewContextManager and GetBudgets applied to one ceiling
VARIABLES
    ceiling,        \* the maxTokens NewContextManager is called with
    budgets         \* what GetBudgets returned: system, examples, content, reserve

budgetVars == <<ceiling, budgets>>

\* one call of a function of ContextManager or of a sanitizer
VARIABLES
    toolArgs,       \* the arguments of the call
    toolRet         \* the call's position and what it has built or returned

toolVars == <<toolArgs, toolRet>>

vars == <<runVars, catVars, moveVars, setupVars, parseVars, sumVars,
          budgetVars, toolVars>>

\* ------------------------------------------------------- MLXEngine (ai)
DefaultCategories ==
    <<"Personal", "Work", "Finance", "Health", "Education", "Technical",
      "Travel", "Legal", "Projects", "Receipts", "Misc">>

Members(list) == {list[i] : i \in 1..Len(list)}

\* ---- the text of a reply
\* The content of a reply is a sequence of pieces of text: a JSON object, the
\* fence delimiters "```json" and "```", white space, the end-of-turn token,
\* a closing brace on its own, and prose (text without braces). The object of
\* a piece is written with the fields missing, with an unknown field (extra),
\* with a defect of its syntax, and with the values category, title and
\* confidence (a score below, at and above zero is -1, 0 and 1).
NoObject ==
    [defect |-> "none", missing |-> "none", extra |-> FALSE,
     category |-> "", title |-> "", confidence |-> 0]

Piece(t) == [t |-> t, obj |-> NoObject]

ObjectPiece(o) == [t |-> "object", obj |-> o]

\* {"category": c, "title": t, "confidence_score": f}
Object(c, t, f) ==
    [defect |-> "none", missing |-> "none", extra |-> FALSE,
     category |-> c, title |-> t, confidence |-> f]

\* a reply that is the object and nothing else
BareObject(o) == <<ObjectPiece(o)>>

\* a reply without any text
NoContent == <<>>

EotToken == "<|eot_id|>"

CategoryTexts == {"Work", "work", "Misc", ""}
TitleTexts == {"Report", "a/b", "Unknown_Doc", ""}
ScoreValues == {0, 1}

\* The reply texts of one Categorize call: an object with the three fields,
\* among them one that names a folder with "&" in its name, and prose.
Contents ==
    {BareObject(Object(c, t, f)) : c \in CategoryTexts, t \in TitleTexts,
                                   f \in ScoreValues}
    \cup {BareObject(Object("R&D", "Report", 1)), <<Piece("prose")>>}

\* What the service can answer to one request.
ServiceFailures == {"transport", "status", "decode", "nochoices"}
Replies ==
    [kind : ServiceFailures, content : {NoContent}]
    \cup [kind : {"content"}, content : Contents]

NoResult == [category |-> "", title |-> "", confidence |-> 0]
FallbackResult == [category |-> "Misc", title |-> "Unknown_Doc", confidence |-> 0]

NoErr == [cause |-> "nil", attempt |-> 0, wrapped |-> FALSE]
AttemptErr(cause, k) == [cause |-> cause, attempt |-> k, wrapped |-> FALSE]
\* a return that hands out the fallback result and drops the error
DropError(e) == NoErr

\* fmt.Errorf("failed to get valid structured output after %d retries: %w", ...)
Wrap(e) == [e EXCEPT !.wrapped = TRUE]

\* On the names of the model SanitizeCategory and SanitizeFilename change the
\* empty string, the path separator (in a title) and the character "&".
SanitizeCategory(s) ==
    CASE s = "" -> "unnamed"
      [] s = "R&D" -> "R_D"
      [] OTHER -> s
SanitizeFilename(s) ==
    CASE s = "" -> "unnamed"
      [] s = "a/b" -> "a_b"
      [] s = "R&D" -> "R_D"
      [] OTHER -> s

\* ---- cleanJSON
RECURSIVE TrimLeft(_)
TrimLeft(s) ==
    IF s # <<>> /\ Head(s).t = "ws" THEN TrimLeft(Tail(s)) ELSE s

RECURSIVE TrimRight(_)
TrimRight(s) ==
    IF s # <<>> /\ s[Len(s)].t = "ws"
    THEN TrimRight(SubSeq(s, 1, Len(s) - 1)) ELSE s

\* strings.TrimSpace
TrimSpace(s) == TrimRight(TrimLeft(s))

\* strings.TrimPrefix and strings.TrimSuffix with a fence delimiter
TrimPrefix(s, t) == IF s # <<>> /\ Head(s).t = t THEN Tail(s) ELSE s
TrimSuffix(s, t) ==
    IF s # <<>> /\ s[Len(s)].t = t THEN SubSeq(s, 1, Len(s) - 1) ELSE s

\* strings.ReplaceAll(s, "<|eot_id|>", "") on a string value of the object
StripEot(str) ==
    CASE str = EotToken -> ""
      [] str = "Work<|eot_id|>" -> "Work"
      [] OTHER -> str

\* strings.ReplaceAll(s, "<|eot_id|>", "") on the text: the token goes
\* wherever it stands, inside the values of the object too
RECURSIVE RemoveEot(_)
RemoveEot(s) ==
    IF s = <<>> THEN <<>>
    ELSE LET p == Head(s)
             rest == RemoveEot(Tail(s))
         IN  CASE p.t = "eot" -> rest
               [] p.t = "object" ->
                    <<ObjectPiece([p.obj EXCEPT !.category = StripEot(@),
                                                !.title = StripEot(@)])>> \o rest
               [] OTHER -> <<p>> \o rest

\* the pieces that hold a "{" and the pieces that hold a "}"
HasOpen(p) == p.t = "object"
HasClose(p) ==
    \/ p.t = "rbrace"
    \/ p.t = "object" /\ p.obj.defect # "unterminated"

\* a cleaning that leaves the text as it is
KeepText(s) == s

\* F(x), with x evaluated before F is applied to it
Of(F(_), x) == CHOOSE y \in {F(v) : v \in {x}} : TRUE

\* cleanJSON: the fences at both ends and the end-of-turn tokens go, then
\* the text from the first "{" to the last "}" is kept
cleanJSON(s) ==
    LET Fences(s1) ==
            LET s2 == TrimPrefix(s1, "fence_json")
                s3 == TrimPrefix(s2, "fence")
            IN  TrimSuffix(s3, "fence")
        Braces(s5) ==
            LET opens == {i \in 1..Len(s5) : HasOpen(s5[i])}
                closes == {i \in 1..Len(s5) : HasClose(s5[i])}
                start == CHOOSE i \in opens : \A k \in opens : i <= k
                end == CHOOSE i \in closes : \A k \in closes : i >= k
            IN  IF opens # {} /\ closes # {} /\ end >= start
                THEN SubSeq(s5, start, end) ELSE s5
    IN  Of(TrimSpace, Of(Braces, Of(RemoveEot, Of(Fences, Of(TrimSpace, s)))))

\* dec.Decode(&result) with DisallowUnknownFields: the next JSON value of the
\* text is decoded into an AnalysisResult, a field that is absent keeping its
\* zero value; rest is what the decoder has not read.
Decode(s) ==
    LET t == TrimLeft(s)
        o == Head(t).obj
    IN  IF t = <<>> \/ Head(t).t # "object"
        THEN [ok |-> FALSE, result |-> NoObject, rest |-> <<>>]
        ELSE IF o.defect # "none" \/ o.extra
        THEN [ok |-> FALSE, result |-> NoObject, rest |-> <<>>]
        ELSE [ok |-> TRUE,
              result |->
                 [o EXCEPT
                    !.category = IF o.missing \in {"category", "all"} THEN "" ELSE @,
                    !.title = IF o.missing \in {"title", "all"} THEN "" ELSE @,
                    !.confidence =
                        IF o.missing \in {"confidence_score", "all"} THEN 0 ELSE @],
              rest |-> Tail(t)]

\* dec.Decode(&dummy) returns io.EOF: only white space is left
AtEOF(rest) == TrimLeft(rest) = <<>>

\* parseAndValidate: <<result, cause>>, cause "nil" when the reply validates.
parseAndValidate(content, registry) ==
    LET Validate(d) ==
          LET result == d.result IN
          CASE ~d.ok -> <<NoResult, "invalid_json">>
          [] ~AtEOF(d.rest) -> <<NoResult, "trailing_data">>
          [] result.category = "" -> <<NoResult, "missing_category">>
          [] result.title = "" -> <<NoResult, "missing_title">>
          [] result.confidence <= 0 -> <<NoResult, "invalid_confidence">>
          [] result.category \notin Members(registry) -> <<NoResult, "invalid_category">>
          [] OTHER ->
                <<[category |-> SanitizeCategory(result.category),
                   title |-> SanitizeFilename(result.title),
                   confidence |-> result.confidence], "nil">>
    IN  Of(Validate, Decode(cleanJSON(content)))

\* client.Do on a request whose context is done fails before anything is
\* written to the connection: such an attempt sends no request.
RequestSent(ctxErr) == ~ctxErr

\* executeCategorization: <<result, cause>>.
executeCategorization(ctxErr, reply, registry) ==
    CASE ~RequestSent(ctxErr) -> <<NoResult, "context">>
      [] reply.kind # "content" -> <<NoResult, reply.kind>>
      [] OTHER -> parseAndValidate(reply.content, registry)

\* The state of one Categorize call at the head of its correction loop.
CategorizeStart ==
    [attempt |-> 0, sent |-> 0, lastErr |-> NoErr, status |-> "loop",
     result |-> NoResult, err |-> NoErr]

\* a loop that goes round once more
LoopOneMore(attempt) == attempt <= maxRetries + 1

\* for attempt := 0; attempt <= maxRetries; attempt++
LoopContinues(attempt) == attempt <= maxRetries

\* ---- the messages of a request
\* systemPrompt and userPrompt are built once, before the loop
BaseMessages ==
    <<[role |-> "system", content |-> "systemPrompt", reason |-> NoErr],
      [role |-> "user", content |-> "userPrompt", reason |-> NoErr]>>

\* the two messages of a retry: the note, and the previous error (%v of lastErr)
Correction(e) ==
    <<[role |-> "assistant", content |-> "Previous attempt failed validation.",
       reason |-> NoErr],
      [role |-> "user", content |-> "Your previous response was invalid",
       reason |-> e]>>

\* a retry that sends the two prompts again and nothing else
MessagesWithoutReason(c) == BaseMessages

\* messages of the request of the iteration that starts in state c
Messages(c) ==
    IF c.attempt > 0 /\ c.lastErr # NoErr
    THEN BaseMessages \o Correction(c.lastErr)
    ELSE BaseMessages

\* One iteration of the correction loop, and the return that follows it when
\* the attempt succeeded or was the last one.
CategorizeAttempt(c, ctxErr, reply, registry) ==
    LET out == executeCategorization(ctxErr, reply, registry)
        sent == IF RequestSent(ctxErr) THEN c.sent + 1 ELSE c.sent
        e == AttemptErr(out[2], c.attempt + 1)
    IN  IF out[2] = "nil"
        THEN [c EXCEPT !.sent = sent, !.status = "returned",
                       !.result = out[1], !.err = NoErr]
        ELSE IF LoopContinues(c.attempt + 1)
        THEN [c EXCEPT !.sent = sent, !.attempt = c.attempt + 1, !.lastErr = e]
        ELSE [c EXCEPT !.sent = sent, !.attempt = c.attempt + 1, !.lastErr = e,
                       !.status = "returned", !.result = FallbackResult,
                       !.err = Wrap(e)]

\* The whole correction loop of one call, the service answering rs[1], rs[2], ...
\* to the requests in turn.
RECURSIVE CategorizeLoop(_, _, _, _)
CategorizeLoop(c, ctxErr, rs, registry) ==
    LET Rest(next) == CategorizeLoop(next, ctxErr, Tail(rs), registry)
    IN  IF c.status = "returned" THEN c
        ELSE Of(Rest, CategorizeAttempt(c, ctxErr, Head(rs), registry))

ReplySeqs(S) == [1..(maxRetries + 1) -> S]

\* ------------------------------------------------------------ fileops
\* The files of the model all ask for the same folder and the same file name.
\* The names of the folder: PlainName is that name, and h > 0 is the name with
\* "_" and the hash h put before its extension.
NumMovers == 2
NumContents == 3

Movers == 1..NumMovers
FileContents == 1..NumContents
NoFile == 0
\* what os.Create and an interrupted io.Copy leave behind
Partial == 0 - 1

\* hash[:8] of getFileHash: the first 8 hex digits of the SHA-256, which
\* different contents can share
Hash8(c) == (c + 1) \div 2

PlainName == 0
DstNames == {PlainName} \cup {Hash8(c) : c \in FileContents}

\* no MoveFile call has begun
MoversIdle ==
    /\ srcExists = [m \in Movers |-> TRUE]
    /\ mpc = [m \in Movers |-> "idle"]
    /\ dstPath = [m \in Movers |-> PlainName]
    /\ after = [m \in Movers |-> {}]

\* The source files have any contents; the folder is empty or holds a file of
\* the name already.
InitMove ==
    /\ fileContent \in [Movers -> FileContents]
    /\ \E c \in FileContents \cup {NoFile} :
          /\ dst = [n \in DstNames |-> IF n = PlainName THEN c ELSE NoFile]
          /\ before = IF c = NoFile THEN 0 ELSE 1
    /\ MoversIdle

InitMoveIdle ==
    /\ fileContent = [m \in Movers |-> 1]
    /\ dst = [n \in DstNames |-> NoFile]
    /\ before = 0
    /\ MoversIdle

\* MoveFile is called; os.MkdirAll makes the folder, or fails
Call(m) ==
    /\ mpc[m] = "idle"
    /\ \E mkdirErr \in BOOLEAN :
          mpc' = [mpc EXCEPT ![m] = IF mkdirErr THEN "failed" ELSE "stat"]
    /\ after' = [after EXCEPT ![m] = {k \in Movers : mpc[k] = "done"}]
    /\ UNCHANGED <<before, fileContent, srcExists, dst, dstPath>>

\* a move that does not look at the destination
NeverCollides(d, name) == FALSE

\* if _, err := os.Stat(dstPath); err == nil
Collides(d, name) == d[name] # NoFile

\* the collision check: on a collision the name gets the hash of the source
\* file's content, unless getFileHash fails
Stat(m) ==
    /\ mpc[m] = "stat"
    /\ IF Collides(dst, PlainName)
       THEN \E hashErr \in BOOLEAN :
              IF hashErr
              THEN /\ mpc' = [mpc EXCEPT ![m] = "failed"]
                   /\ UNCHANGED dstPath
              ELSE /\ mpc' = [mpc EXCEPT ![m] = "rename"]
                   /\ dstPath' = [dstPath EXCEPT ![m] = Hash8(fileContent[m])]
       ELSE /\ mpc' = [mpc EXCEPT ![m] = "rename"]
            /\ dstPath' = [dstPath EXCEPT ![m] = PlainName]
    /\ UNCHANGED <<before, fileContent, srcExists, dst, after>>

\* os.Rename(src, dstPath): the file takes the place of whatever is at dstPath
Rename(m) ==
    /\ mpc[m] = "rename"
    /\ \E renameErr \in BOOLEAN :
          IF renameErr
          THEN /\ mpc' = [mpc EXCEPT ![m] = "copy"]
               /\ UNCHANGED <<srcExists, dst>>
          ELSE /\ mpc' = [mpc EXCEPT ![m] = "done"]
               /\ dst' = [dst EXCEPT ![dstPath[m]] = fileContent[m]]
               /\ srcExists' = [srcExists EXCEPT ![m] = FALSE]
    /\ UNCHANGED <<before, fileContent, dstPath, after>>

\* copyFile(src, dstPath), the fallback: os.Create truncates what is at dstPath
Copy(m) ==
    /\ mpc[m] = "copy"
    /\ \E how \in {"copied", "open_failed", "copy_failed"} :
          /\ mpc' = [mpc EXCEPT ![m] = IF how = "copied" THEN "remove" ELSE "failed"]
          /\ dst' = CASE how = "copied" -> [dst EXCEPT ![dstPath[m]] = fileContent[m]]
                      [] how = "copy_failed" -> [dst EXCEPT ![dstPath[m]] = Partial]
                      [] OTHER -> dst
    /\ UNCHANGED <<before, fileContent, srcExists, dstPath, after>>

\* os.Remove(src) after the copy
Remove(m) ==
    /\ mpc[m] = "remove"
    /\ \E removeErr \in BOOLEAN :
          IF removeErr
          THEN /\ mpc' = [mpc EXCEPT ![m] = "failed"]
               /\ UNCHANGED srcExists
          ELSE /\ mpc' = [mpc EXCEPT ![m] = "done"]
               /\ srcExists' = [srcExists EXCEPT ![m] = FALSE]
    /\ UNCHANGED <<before, fileContent, dst, dstPath, after>>

\* ------------------------------------------------------ Pipeline (pipeline)
\* What the service answers inside a pipeline run: a reply that validates
\* against the default registry, and one that does not.
PipelineReplies ==
    {[kind |-> "content", content |-> BareObject(Object("Work", "Report", 1))],
     [kind |-> "status", content |-> NoContent]}

\* a processFile that is handed the parent context itself
ParentCtxErr(w) == ctxDone

\* ctx.Err() != nil of the worker's fileCtx, a child of the parent context
\* with its own deadline.
FileCtxErr(w) == ctxDone \/ fileTimeout[w]

\* The files of the model are the ones the callback makes jobs of (regular
\* files ending in .pdf, .txt or .md), in the order the walk visits them.
InitRunState ==
    /\ ctxDone = FALSE
    /\ nextFile = 1
    /\ walkErr = "none"
    /\ jobs = <<>>
    /\ closed = FALSE
    /\ ret = "none"
    /\ TotalFiles = 0
    /\ ProcessedFiles = 0
    /\ FailedFiles = 0
    /\ fileTimeout = [w \in Workers |-> FALSE]
    /\ catErr = [w \in Workers |-> FALSE]
    /\ deq = [j \in Files |-> 0]
    /\ recvAfterFault = FALSE

\* validCategories: DefaultCategories in the engine NewMLXEngine returns
InitEngine == validCategories = DefaultCategories

\* Run past its discovery step, the workers started and the walk about to
\* begin, the registry being the default one.
InitRun ==
    /\ InitRunState
    /\ runPc = "scan"
    /\ wpc = [w \in Workers |-> "select"]
    /\ InitEngine

workerVars == <<wpc, fileTimeout, catErr, deq, recvAfterFault>>
counterVars == <<TotalFiles, ProcessedFiles, FailedFiles>>
scanVars == <<runPc, nextFile, walkErr, closed, ret>>

\* ---- the scanner: filepath.Walk and its callback, then close(jobs)
\* filepath.Walk returns e; Run closes the channel and waits for the workers.
EndScan(e) ==
    /\ walkErr' = e
    /\ closed' = TRUE
    /\ runPc' = "wait"

\* the callback is handed a traversal error and returns it
WalkError ==
    /\ runPc = "scan"
    /\ nextFile <= NumFiles
    /\ EndScan("scan_error")
    /\ UNCHANGED <<ctxDone, nextFile, jobs, ret, counterVars, workerVars>>

\* if ctx.Err() != nil { return ctx.Err() }
WalkCancelled ==
    /\ runPc = "scan"
    /\ nextFile <= NumFiles
    /\ ctxDone
    /\ EndScan("canceled")
    /\ UNCHANGED <<ctxDone, nextFile, jobs, ret, counterVars, workerVars>>

\* atomic.AddInt32(&p.TotalFiles, 1), then the select
WalkFile ==
    /\ runPc = "scan"
    /\ nextFile <= NumFiles
    /\ ~ctxDone
    /\ TotalFiles' = TotalFiles + 1
    /\ runPc' = "send"
    /\ UNCHANGED <<ctxDone, nextFile, walkErr, jobs, closed, ret, ProcessedFiles,
                   FailedFiles, workerVars>>

\* a send on a channel without a capacity
AlwaysCanSend(q) == TRUE

\* jobs <- FileJob{Path: path} can proceed while the buffer has room
CanSend(q) == Len(q) < QueueCap

\* case jobs <- FileJob{Path: path}. A select with several ready cases takes
\* any of them.
SendJob ==
    /\ runPc = "send"
    /\ CanSend(jobs)
    /\ jobs' = Append(jobs, nextFile)
    /\ nextFile' = nextFile + 1
    /\ runPc' = "scan"
    /\ UNCHANGED <<ctxDone, walkErr, closed, ret, counterVars, workerVars>>

\* case <-ctx.Done(): return ctx.Err()
SendCancelled ==
    /\ runPc = "send"
    /\ ctxDone
    /\ EndScan("canceled")
    /\ UNCHANGED <<ctxDone, nextFile, jobs, ret, counterVars, workerVars>>

\* the walk has visited everything
WalkEnd ==
    /\ runPc = "scan"
    /\ nextFile > NumFiles
    /\ EndScan("nil")
    /\ UNCHANGED <<ctxDone, nextFile, jobs, ret, counterVars, workerVars>>

\* if err != nil && err != context.Canceled { return err }; return ctx.Err()
RunResult(e, done) ==
    IF e # "nil" /\ e # "canceled" THEN e
    ELSE IF done THEN "canceled" ELSE "nil"

\* a worker goroutine has ended: wg.Done() has run
Ended(w) == wpc[w] \in {"exited", "recovered"}

\* wg.Wait() returns once every worker has ended
Return ==
    /\ runPc = "wait"
    /\ \A w \in Workers : Ended(w)
    /\ ret' = RunResult(walkErr, ctxDone)
    /\ runPc' = "returned"
    /\ UNCHANGED <<ctxDone, nextFile, walkErr, jobs, closed, counterVars,
                   workerVars>>

\* ---- one worker goroutine
\* a receive that leaves the job in the buffer
DequeueKeeps(q) == q

\* job, ok := <-jobs with ok: the head of the buffer is taken out of it
Dequeue(q) == Tail(q)

\* case job, ok := <-jobs (ok): fileCtx is created and processFile is called
Receive(w) ==
    /\ wpc[w] = "select"
    /\ jobs # <<>>
    /\ deq' = [deq EXCEPT ![Head(jobs)] = @ + 1]
    /\ jobs' = Dequeue(jobs)
    /\ wpc' = [wpc EXCEPT ![w] = "extract"]
    /\ recvAfterFault' = (recvAfterFault \/ \E v \in Workers : wpc[v] = "recovered")
    /\ UNCHANGED <<ctxDone, scanVars, counterVars, fileTimeout, catErr>>

\* case job, ok := <-jobs (!ok): the channel is closed and drained
ReceiveClosed(w) ==
    /\ wpc[w] = "select"
    /\ jobs = <<>>
    /\ closed
    /\ wpc' = [wpc EXCEPT ![w] = "exited"]
    /\ UNCHANGED <<ctxDone, scanVars, jobs, counterVars, fileTimeout, catErr,
                   deq, recvAfterFault>>

\* case <-ctx.Done(): return
WorkerCancelled(w) ==
    /\ wpc[w] = "select"
    /\ ctxDone
    /\ wpc' = [wpc EXCEPT ![w] = "exited"]
    /\ UNCHANGED <<ctxDone, scanVars, jobs, counterVars, fileTimeout, catErr,
                   deq, recvAfterFault>>

\* processFile returns, cancel() releases fileCtx and the loop selects again
BackToSelect(w) ==
    /\ wpc' = [wpc EXCEPT ![w] = "select"]
    /\ fileTimeout' = [fileTimeout EXCEPT ![w] = FALSE]
    /\ catErr' = [catErr EXCEPT ![w] = FALSE]

\* a skip that leaves the counter alone
NotCounted(n) == n

\* atomic.AddInt32(&p.FailedFiles, 1) when ExtractText returned an error
FailedAfterExtract(n) == n + 1

\* processFile when ExtractText fails
ExtractFailed(w) ==
    /\ wpc[w] = "extract"
    /\ FailedFiles' = FailedAfterExtract(FailedFiles)
    /\ BackToSelect(w)
    /\ UNCHANGED <<ctxDone, scanVars, jobs, TotalFiles, ProcessedFiles, deq, recvAfterFault>>

\* a processFile without the check of its context
NeverReturnsAfterExtract(w) == FALSE

\* processFile when ExtractText succeeds: if ctx.Err() != nil { return }
ReturnsAfterExtract(w) == FileCtxErr(w)

ExtractDone(w) ==
    /\ wpc[w] = "extract"
    /\ IF ReturnsAfterExtract(w)
       THEN BackToSelect(w)
       ELSE /\ wpc' = [wpc EXCEPT ![w] = "categorize"]
            /\ UNCHANGED <<fileTimeout, catErr>>
    /\ UNCHANGED <<ctxDone, scanVars, jobs, counterVars, deq, recvAfterFault>>

\* result, err := p.AI.Categorize(ctx, text): the call runs its correction loop
\* under the worker's fileCtx and returns
Categorize(w) ==
    /\ wpc[w] = "categorize"
    /\ \E rs \in ReplySeqs(PipelineReplies) :
        LET c == CategorizeLoop(CategorizeStart, FileCtxErr(w), rs, validCategories) IN
        catErr' = [catErr EXCEPT ![w] = c.err # NoErr]
    /\ wpc' = [wpc EXCEPT ![w] = "move"]
    /\ fileTimeout' = [fileTimeout EXCEPT ![w] = FALSE]
    /\ UNCHANGED <<ctxDone, scanVars, jobs, counterVars, deq, recvAfterFault>>

\* a processFile that counts every file it has handed to MoveFile as processed
AlwaysProcessed(classifyErr, moveErr) == "processed"

\* processFile after Categorize: whatever err is, the file is moved, to the
\* result's folder and title when err == nil and to Misc under its own name
\* otherwise; the counter depends on MoveFile's error alone.
MoveCounts(classifyErr, moveErr) ==
    IF moveErr THEN "failed" ELSE "processed"

Move(w) ==
    /\ wpc[w] = "move"
    /\ \E moveErr \in BOOLEAN :
        LET how == MoveCounts(catErr[w], moveErr) IN
        /\ ProcessedFiles' = IF how = "processed" THEN ProcessedFiles + 1 ELSE ProcessedFiles
        /\ FailedFiles' = IF how = "failed" THEN FailedFiles + 1 ELSE FailedFiles
    /\ BackToSelect(w)
    /\ UNCHANGED <<ctxDone, scanVars, jobs, TotalFiles, deq, recvAfterFault>>

\* the worker's fileCtx reaches its deadline (2 minutes) while ExtractText or
\* Categorize runs (MoveFile takes no context)
FileTimeout(w) ==
    /\ wpc[w] \in {"extract", "categorize"}
    /\ ~fileTimeout[w]
    /\ fileTimeout' = [fileTimeout EXCEPT ![w] = TRUE]
    /\ UNCHANGED <<ctxDone, scanVars, jobs, counterVars, wpc, catErr, deq,
                   recvAfterFault>>

\* a panic nothing recovers ends the process, every goroutine with it
Crashed(pcs, w) == [v \in DOMAIN pcs |-> "recovered"]

\* The goroutine's deferred function recovers a panic raised in processFile:
\* the goroutine that panicked ends there (its wg.Done() runs), the others are
\* not touched.
Recovered(pcs, w) == [pcs EXCEPT ![w] = "recovered"]

\* a deferred function that stores a fresh count
StoredAfterPanic(n) == 1

\* a deferred function that counts the file once more than processFile would
CountedTwice(n) == n + 2

\* atomic.AddInt32(&p.FailedFiles, 1) in the deferred function
FailedAfterPanic(n) == n + 1

\* a runtime panic inside processFile
Panic(w) ==
    /\ wpc[w] \in {"extract", "categorize", "move"}
    /\ FailedFiles' = FailedAfterPanic(FailedFiles)
    /\ wpc' = Recovered(wpc, w)
    /\ fileTimeout' = [fileTimeout EXCEPT ![w] = FALSE]
    /\ catErr' = [catErr EXCEPT ![w] = FALSE]
    /\ UNCHANGED <<ctxDone, scanVars, jobs, TotalFiles, ProcessedFiles, deq,
                   recvAfterFault>>

\* the interrupt signal cancels the parent context
Cancel ==
    /\ ~ctxDone
    /\ runPc # "returned"
    /\ ctxDone' = TRUE
    /\ UNCHANGED <<scanVars, jobs, counterVars, workerVars>>

idleMove == UNCHANGED moveVars

idleSetup == UNCHANGED setupVars

idleText == UNCHANGED <<parseVars, sumVars, budgetVars, toolVars>>

idleCall ==
    /\ UNCHANGED <<call, callCtx, attempts, validCategories>>
    /\ idleMove
    /\ idleSetup
    /\ idleText

ScannerStep ==
    /\ \/ WalkError
       \/ WalkCancelled
       \/ WalkFile
       \/ SendJob
       \/ SendCancelled
       \/ WalkEnd
       \/ Return
    /\ idleCall

WorkerStep(w) ==
    /\ \/ Receive(w)
       \/ ReceiveClosed(w)
       \/ WorkerCancelled(w)
       \/ ExtractFailed(w)
       \/ ExtractDone(w)
       \/ Categorize(w)
       \/ Move(w)
    /\ idleCall

Next ==
    \/ ScannerStep
    \/ \E w \in Workers : WorkerStep(w)
    \/ \E w \in Workers : FileTimeout(w) /\ idleCall
    \/ \E w \in Workers : Panic(w) /\ idleCall
    \/ Cancel /\ idleCall

InitCallIdle ==
    /\ call = CategorizeStart
    /\ callCtx = FALSE
    /\ attempts = <<>>

\* no manual list, no destination folder yet
InitSetupIdle ==
    /\ manual = <<>>
    /\ destDir = [state |-> "missing", dirs |-> <<>>]
    /\ registryWrites = 0

\* no reply has been handed to parseAndValidate
NotParsed == [done |-> FALSE, result |-> NoResult, cause |-> "nil"]

InitParseIdle ==
    /\ answer = [pre |-> <<>>, obj |-> NoObject, post |-> <<>>]
    /\ parsed = NotParsed

\* no text has been handed to Categorize
InitSumIdle ==
    /\ doc = <<>>
    /\ text = <<>>
    /\ sumPc = "idle"
    /\ sumText = <<>>
    /\ chunkIdx = 0
    /\ summaries = <<>>
    /\ rounds = 0
    /\ sumFailed = FALSE

\* no context manager has been asked for its budgets
InitBudgetIdle ==
    /\ ceiling = 0
    /\ budgets = <<>>

\* no function is being called on its own
InitToolIdle ==
    /\ toolArgs = <<>>
    /\ toolRet = <<>>

InitTextIdle ==
    InitParseIdle /\ InitSumIdle /\ InitBudgetIdle /\ InitToolIdle

Init == InitRun /\ InitCallIdle /\ InitMoveIdle /\ InitSetupIdle /\ InitTextIdle

\* A run of the pipeline: the scanner, the workers, the faults, timeouts and
\* cancellation the environment brings.
Spec == Init /\ [][Next]_vars

\* The same, the Go scheduler running every goroutine that can take a step:
\* the scanner and each worker. Panics, timeouts and the interrupt are not
\* bound to happen.
FairSpec ==
    /\ Init
    /\ [][Next]_vars
    /\ WF_vars(ScannerStep)
    /\ \A w \in Workers : WF_vars(WorkerStep(w))

\* ------------------------------------------------------------ the pipeline
Processing == {"extract", "categorize", "move"}

\* the jobs the scanner has put on the channel
Enqueued == {j \in Files : j < nextFile}

\* C1: with the parent context never cancelled, whatever number of files
\* panic, every job the scanner produces is eventually received by a worker
\* and Run eventually returns.
C1_PoolContinues ==
    ([]~ctxDone) => <>(runPc = "returned" /\ \A j \in Enqueued : deq[j] >= 1)

\* C3: a file whose Categorize call returned an error is counted under failed
\* and never under processed.
C3_ErrorIsFailure ==
    [][\A w \in Workers :
          (wpc[w] = "move" /\ catErr[w] /\ wpc'[w] = "select")
              => (FailedFiles' = FailedFiles + 1 /\ ProcessedFiles' = ProcessedFiles)]_vars

\* C6: every job is received from the channel at most once; when Run returns
\* from a run without cancellation and without a worker fault, every job that
\* was put on the channel has been received (and so processed) exactly once and
\* the channel is empty.
C6_ExactlyOnce ==
    /\ \A j \in Files : deq[j] <= 1
    /\ \A j \in Files : deq[j] >= 1 => j \in Enqueued
    /\ (runPc = "returned" /\ ~ctxDone /\ \A w \in Workers : wpc[w] = "exited")
          => (jobs = <<>> /\ \A j \in Enqueued : deq[j] = 1)

C6_Witness ==
    /\ runPc = "returned"
    /\ ~ctxDone
    /\ \A w \in Workers : wpc[w] = "exited"
    /\ \A j \in Files : deq[j] = 1

\* C7: when Run returns and the parent context was never cancelled, every
\* scanned job has been counted: processed + failed = total.
C7_AllCounted ==
    (runPc = "returned" /\ ~ctxDone) => ProcessedFiles + FailedFiles = TotalFiles

\* C8: once the parent context is cancelled the scanner puts no further job
\* on the channel and no worker starts a file move.
C8_NothingStartsAfterCancel ==
    [][ctxDone =>
          /\ Len(jobs') <= Len(jobs)
          /\ \A w \in Workers : ~(wpc[w] = "move" /\ wpc'[w] = "select")]_vars

WorkerRank(w) ==
    CASE wpc[w] = "extract" -> IF fileTimeout[w] THEN 5 ELSE 6
      [] wpc[w] = "categorize" -> IF fileTimeout[w] THEN 3 ELSE 4
      [] wpc[w] = "move" -> 2
      [] wpc[w] = "select" -> 1
      [] OTHER -> 0

RECURSIVE SumRanks(_)
SumRanks(W) ==
    IF W = {} THEN 0
    ELSE LET w == CHOOSE x \in W : TRUE IN WorkerRank(w) + SumRanks(W \ {w})

RunMeasure ==
    SumRanks(Workers) + 7 * Len(jobs)
    + (CASE runPc = "send" -> 10 [] runPc = "scan" -> 2 [] runPc = "wait" -> 1
         [] OTHER -> 0)

C10_FaultIsolated ==
    [][\A w \in Workers :
          (wpc[w] \in Processing /\ wpc'[w] = "recovered")
              => /\ FailedFiles' = FailedFiles + 1
                 /\ ProcessedFiles' = ProcessedFiles
                 /\ TotalFiles' = TotalFiles
                 /\ \A v \in Workers \ {w} :
                        /\ wpc'[v] = wpc[v]
                        /\ fileTimeout'[v] = fileTimeout[v]
                        /\ catErr'[v] = catErr[v]
                 /\ jobs' = jobs
                 /\ closed' = closed
                 /\ ctxDone' = ctxDone]_vars

\* a sibling received a job after the fault and has brought it to the move
C10_Witness ==
    /\ recvAfterFault
    /\ \E w, v \in Workers : wpc[w] = "recovered" /\ wpc[v] = "move"
    /\ ProcessedFiles >= 1

\* C11: with N workers at most N files are in processing at any time, the
\* channel never holds more than 2N jobs, a job is put on it only while it holds
\* fewer than 2N, and the scanner that has a job to send waits exactly while the
\* channel is full and the parent context is not cancelled.
C11_BoundedPool ==
    /\ [](/\ Cardinality({w \in Workers : wpc[w] \in Processing}) <= NumWorkers
          /\ Len(jobs) <= 2 * NumWorkers)
    /\ [][Len(jobs') > Len(jobs)
            => (Len(jobs) < 2 * NumWorkers /\ Len(jobs') = Len(jobs) + 1)]_vars
    /\ []((runPc = "send" /\ Len(jobs) = 2 * NumWorkers /\ ~ctxDone)
            => ~ENABLED ScannerStep)
    /\ []((runPc = "send" /\ (Len(jobs) < 2 * NumWorkers \/ ctxDone))
            => ENABLED ScannerStep)

\* the scanner waits with a job in hand, the channel full
C11_Witness ==
    /\ runPc = "send"
    /\ ~ctxDone
    /\ Len(jobs) = 2 * NumWorkers
    /\ ~ENABLED ScannerStep

\* C23: the deadline of one file's context touches nothing but that file: the
\* parent context, the channel and the other workers stay as they are; the
\* file's worker is not blocked; its Categorize call, if it is in one, sends
\* nothing more and returns an error; and each of its steps brings it closer
\* to the select, where it receives the next job.
C23_TimeoutIsPerFile ==
    /\ [][\A w \in Workers :
            (~fileTimeout[w] /\ fileTimeout'[w])
                => /\ ctxDone' = ctxDone
                   /\ jobs' = jobs
                   /\ closed' = closed
                   /\ wpc' = wpc
                   /\ catErr' = catErr
                   /\ \A v \in Workers \ {w} : fileTimeout'[v] = fileTimeout[v]]_vars
    /\ [](\A w \in Workers :
            fileTimeout[w] => (wpc[w] \in {"extract", "categorize"}
                               /\ ENABLED WorkerStep(w)))
    /\ [](\A w \in Workers : wpc[w] = "move" => ENABLED WorkerStep(w))
    /\ [](\A w \in Workers :
            (wpc[w] = "select" /\ jobs # <<>>) => ENABLED WorkerStep(w))
    /\ [][\A w \in Workers :
            (fileTimeout[w] /\ wpc'[w] # wpc[w])
                => /\ ~fileTimeout'[w]
                   /\ wpc[w] = "extract" => wpc'[w] \in {"select", "recovered"}
                   /\ wpc[w] = "categorize" => wpc'[w] \in {"move", "recovered"}
                   /\ wpc'[w] = "move" => catErr'[w]]_vars
    /\ [][\A w \in Workers :
            (wpc[w] \in Processing /\ wpc'[w] # wpc[w])
                => WorkerRank(w)' < WorkerRank(w)]_vars

\* one file's deadline has passed inside Categorize while a sibling classifies
\* its own file undisturbed, the parent context live and jobs waiting
C23_Witness ==
    /\ ~ctxDone
    /\ jobs # <<>>
    /\ \E w, v \in Workers :
          /\ wpc[w] = "categorize" /\ fileTimeout[w]
          /\ wpc[v] = "categorize" /\ ~fileTimeout[v]
    /\ ProcessedFiles >= 1

\* C24: a worker leaves the extraction for its select, without a
\* classification and without a move, in two cases only: the extraction
\* failed, and then failed grows by exactly 1 and processed and total stay; or
\* the file's context is done, and then no counter changes. Nothing else
\* changes in either case, and a file is classified only after its extraction
\* and moved only after its classification.
C24_ExtractionFailureSkips ==
    /\ [][\A w \in Workers :
            (wpc[w] = "extract" /\ wpc'[w] = "select")
                => /\ \/ FailedFiles' = FailedFiles + 1
                      \/ FileCtxErr(w) /\ FailedFiles' = FailedFiles
                   /\ ProcessedFiles' = ProcessedFiles
                   /\ TotalFiles' = TotalFiles
                   /\ jobs' = jobs
                   /\ ctxDone' = ctxDone
                   /\ \A v \in Workers \ {w} : wpc'[v] = wpc[v]]_vars
    /\ [][\A w \in Workers :
            /\ (wpc'[w] = "categorize" /\ wpc[w] # "categorize")
                  => (wpc[w] = "extract" /\ FailedFiles' = FailedFiles)
            /\ (wpc'[w] = "move" /\ wpc[w] # "move") => wpc[w] = "categorize"]_vars
    /\ [](\A w \in Workers :
            wpc[w] = "extract" =>
                ENABLED (ExtractFailed(w) /\ idleCall /\ wpc'[w] = "select"
                         /\ FailedFiles' = FailedFiles + 1))

\* the extraction of a file fails while its context is live and jobs wait:
\* the worker is back at its select with failed one higher
C24_Witness ==
    /\ ~ctxDone
    /\ jobs # <<>>
    /\ ProcessedFiles >= 1
    /\ \E w \in Workers :
          /\ wpc[w] = "extract"
          /\ ~fileTimeout[w]
          /\ ENABLED (/\ ExtractFailed(w)
                      /\ idleCall
                      /\ wpc'[w] = "select"
                      /\ FailedFiles' = FailedFiles + 1
                      /\ ProcessedFiles' = ProcessedFiles)

\* C26: when the walk ends with a traversal error the channel is closed, and
\* Run, the parent context not cancelled, returns that error once the workers
\* have received every job that had been put on the channel; when the walk ends
\* without one Run returns nil or the cancellation, whatever failed for a file.
C26_ScanErrorAfterDrain ==
    /\ walkErr = "scan_error" => (closed /\ runPc \in {"wait", "returned"})
    /\ (runPc = "returned" /\ walkErr = "scan_error" /\ ~ctxDone)
          => /\ ret = "scan_error"
             /\ jobs = <<>>
             /\ \A j \in Enqueued : deq[j] = 1
    /\ (runPc = "returned" /\ walkErr # "scan_error")
          => ret = IF ctxDone THEN "canceled" ELSE "nil"

\* C27: no step lowers a counter; a step changes at most one of the three, by
\* exactly 1; and every event that is to be counted is: a file the callback
\* makes a job of adds 1 to total, a MoveFile call that has returned adds 1 to
\* processed or to failed, a recovered panic adds 1 to failed, whatever the
\* other goroutines do in between.
C27_CountersOnlyGrow ==
    /\ [][/\ TotalFiles' \in {TotalFiles, TotalFiles + 1}
           /\ ProcessedFiles' \in {ProcessedFiles, ProcessedFiles + 1}
           /\ FailedFiles' \in {FailedFiles, FailedFiles + 1}
           /\ TotalFiles' + ProcessedFiles' + FailedFiles'
                <= TotalFiles + ProcessedFiles + FailedFiles + 1]_vars
    /\ [][(runPc = "scan" /\ runPc' = "send") => TotalFiles' = TotalFiles + 1]_vars
    /\ [][\A w \in Workers :
            /\ (wpc[w] = "move" /\ wpc'[w] = "select")
                  => ProcessedFiles' + FailedFiles' = ProcessedFiles + FailedFiles + 1
            /\ (wpc[w] # "recovered" /\ wpc'[w] = "recovered")
                  => FailedFiles' = FailedFiles + 1]_vars
    /\ [](TotalFiles = IF runPc = "scan" THEN nextFile - 1
                       ELSE IF runPc = "send" THEN nextFile
                       ELSE TotalFiles)
    /\ [](TotalFiles \in {nextFile - 1, nextFile})

\* the three counters have all moved and both workers are about to count
\* their files
C27_Witness ==
    /\ TotalFiles >= 4
    /\ ProcessedFiles >= 1
    /\ FailedFiles >= 1
    /\ \A w \in Workers : wpc[w] = "move"

\* the jobs that have been received from the channel
Dequeued == {j \in Files : deq[j] >= 1}

\* C39: processed + failed never exceeds total; a job that was received from
\* the channel adds at most one to the two counters together, at the moment
\* its worker leaves processFile, by a return or by a panic, and nothing when
\* the worker returns because its context is done.
C39_CountedAtMostOnce ==
    /\ [](ProcessedFiles + FailedFiles <= TotalFiles)
    /\ [](ProcessedFiles + FailedFiles
            + Cardinality({w \in Workers : wpc[w] \in Processing})
          <= Cardinality(Dequeued))
    /\ [](Cardinality(Dequeued) <= TotalFiles)
    /\ [][/\ ProcessedFiles' >= ProcessedFiles
          /\ FailedFiles' >= FailedFiles
          /\ (ProcessedFiles' + FailedFiles')
                - (ProcessedFiles + FailedFiles) \in {0, 1}
          /\ (ProcessedFiles' + FailedFiles' > ProcessedFiles + FailedFiles)
                => \E w \in Workers :
                      /\ wpc[w] \in Processing
                      /\ wpc'[w] \notin Processing
                      /\ \A v \in Workers \ {w} : wpc'[v] = wpc[v]]_vars

\* one file moved, one counted by the deferred function after a panic, a third
\* one given up after the cancellation without being counted
C39_Witness ==
    /\ ProcessedFiles = 1
    /\ FailedFiles = 1
    /\ Cardinality(Dequeued) = 3
    /\ ctxDone
    /\ \E w \in Workers : wpc[w] = "recovered"
    /\ \A w \in Workers : wpc[w] \notin Processing

\* ------------------------------------- the registry before the workers start
\* maxDepth := 3 in discoverCategories
maxDepth == 3

\* a SetCategories that takes whatever list it is given
AlwaysReplace(current, categories) == categories

\* SetCategories: the list replaces the registry unless it is empty
SetCategories(current, categories) ==
    IF Len(categories) > 0 THEN categories ELSE current

\* A directory below the destination folder: its path relative to the folder,
\* the number of segments of that path, whether its name begins with ".", and
\* the relative path of the directory it lies in ("" for the folder itself).
DirEntry(rel, segments, hidden, under) ==
    [rel |-> rel, segments |-> segments, hidden |-> hidden, under |-> under]

\* The destination folders of the model, the directories in the order
\* filepath.WalkDir visits them (lexical): no folder at all, a folder the walk
\* fails on, and folders with no, a hidden, one, two and nested subdirectories,
\* among them directories inside a hidden one.
DestDirs ==
    {[state |-> "missing", dirs |-> <<>>],
     [state |-> "unreadable", dirs |-> <<>>],
     [state |-> "present", dirs |-> <<>>],
     [state |-> "present", dirs |-> <<DirEntry(".git", 1, TRUE, "")>>],
     [state |-> "present", dirs |-> <<DirEntry("Work", 1, FALSE, "")>>],
     [state |-> "present",
      dirs |-> <<DirEntry("Misc", 1, FALSE, ""), DirEntry("Work", 1, FALSE, "")>>],
     [state |-> "present",
      dirs |-> <<DirEntry("Personal", 1, FALSE, ""), DirEntry("Work", 1, FALSE, ""),
                 DirEntry("Work/Projects", 2, FALSE, "Work")>>],
     [state |-> "present",
      dirs |-> <<DirEntry("Work", 1, FALSE, ""),
                 DirEntry("Work/.cache", 2, TRUE, "Work"),
                 DirEntry("Work/.cache/x", 3, FALSE, "Work/.cache"),
                 DirEntry("Work/b", 2, FALSE, "Work")>>],
     [state |-> "present",
      dirs |-> <<DirEntry("Work", 1, FALSE, ""), DirEntry("Work/a", 2, FALSE, "Work"),
                 DirEntry("Work/a/b", 3, FALSE, "Work/a"),
                 DirEntry("Work/a/b/c", 4, FALSE, "Work/a/b"),
                 DirEntry("Work/a/b/c/d", 5, FALSE, "Work/a/b/c")>>]}

\* cfg.Categories: not set, set without Misc, set with Misc
ManualLists == {<<>>, <<"Work">>, <<"Work", "Misc">>}

\* a listing that judges every directory by its own name and depth
listEach(d) ==
    LET Listed(e) == e.segments <= maxDepth /\ ~e.hidden
        kept == SelectSeq(d.dirs, Listed)
        categories == [i \in 1..Len(kept) |-> kept[i].rel]
        hasMisc == \E i \in 1..Len(categories) : categories[i] = "Misc"
    IN  CASE d.state = "missing" -> [categories |-> <<>>, err |-> "nil"]
          [] d.state = "unreadable" -> [categories |-> <<>>, err |-> "walk_error"]
          [] OTHER ->
                [categories |-> IF hasMisc THEN categories
                                ELSE Append(categories, "Misc"),
                 err |-> "nil"]

\* The callback of filepath.WalkDir over the directories: one that lies in a
\* skipped directory is not visited; one of more than maxDepth segments or
\* with a hidden name returns filepath.SkipDir; any other is appended.
RECURSIVE walkDir(_, _, _)
walkDir(dirs, skipped, categories) ==
    IF dirs = <<>> THEN categories
    ELSE LET e == Head(dirs)
         IN  IF e.under \in skipped \/ e.segments > maxDepth \/ e.hidden
             THEN walkDir(Tail(dirs), skipped \cup {e.rel}, categories)
             ELSE walkDir(Tail(dirs), skipped, Append(categories, e.rel))

\* discoverCategories: the relative paths the walk has appended, and "Misc"
\* after them unless it is among them; (nil, nil) when the folder does not
\* exist, (nil, err) when the walk fails otherwise.
discoverCategories(d) ==
    LET categories == walkDir(d.dirs, {}, <<>>)
        hasMisc == \E i \in 1..Len(categories) : categories[i] = "Misc"
    IN  CASE d.state = "missing" -> [categories |-> <<>>, err |-> "nil"]
          [] d.state = "unreadable" -> [categories |-> <<>>, err |-> "walk_error"]
          [] OTHER ->
                [categories |-> IF hasMisc THEN categories
                                ELSE Append(categories, "Misc"),
                 err |-> "nil"]

\* a pool whose goroutines run from the start, before Run's discovery
WorkersRunning == [w \in Workers |-> "select"]

\* no worker goroutine exists before Run reaches its go statements
WorkersBeforeRun == [w \in Workers |-> "unstarted"]

setupRest ==
    UNCHANGED <<ctxDone, nextFile, walkErr, jobs, closed, ret, counterVars,
                fileTimeout, catErr, deq, recvAfterFault,
                call, callCtx, attempts, manual, destDir>>
    /\ idleMove
    /\ idleText

\* main: if len(cfg.Categories) > 0 { aiEngine.SetCategories(cfg.Categories) },
\* then NewPipeline and p.Run(ctx)
Configure ==
    /\ runPc = "main"
    /\ IF Len(manual) > 0
       THEN /\ validCategories' = SetCategories(validCategories, manual)
            /\ registryWrites' = registryWrites + 1
       ELSE UNCHANGED <<validCategories, registryWrites>>
    /\ runPc' = "discover"
    /\ UNCHANGED wpc
    /\ setupRest

\* Run, step 0: the discovered list is published when discovery returned no
\* error and at least one category
Discover ==
    /\ runPc = "discover"
    /\ LET found == discoverCategories(destDir) IN
       IF found.err = "nil" /\ Len(found.categories) > 0
       THEN /\ validCategories' = SetCategories(validCategories, found.categories)
            /\ registryWrites' = registryWrites + 1
       ELSE UNCHANGED <<validCategories, registryWrites>>
    /\ runPc' = "start"
    /\ UNCHANGED wpc
    /\ setupRest

\* Run, step 1: the channel is made and the worker goroutines are started
StartWorkers ==
    /\ runPc = "start"
    /\ wpc' = [w \in Workers |-> "select"]
    /\ runPc' = "scan"
    /\ UNCHANGED <<validCategories, registryWrites>>
    /\ setupRest

\* the walk and the workers when nothing interrupts them
QuietScannerStep ==
    /\ \/ WalkError
       \/ WalkFile
       \/ SendJob
       \/ WalkEnd
       \/ Return
    /\ idleCall

QuietWorkerStep(w) ==
    /\ \/ Receive(w)
       \/ ReceiveClosed(w)
       \/ ExtractFailed(w)
       \/ ExtractDone(w)
       \/ Categorize(w)
       \/ Move(w)
    /\ idleCall

SetupNext ==
    \/ Configure
    \/ Discover
    \/ StartWorkers
    \/ QuietScannerStep
    \/ \E w \in Workers : QuietWorkerStep(w)

SetupInit ==
    /\ InitRunState
    /\ runPc = "main"
    /\ wpc = WorkersBeforeRun
    /\ InitEngine
    /\ InitCallIdle
    /\ InitMoveIdle
    /\ InitTextIdle
    /\ manual \in ManualLists
    /\ destDir \in DestDirs
    /\ registryWrites = 0

\* The program from main on: the configuration, the discovery, then a run of
\* the pipeline that no panic, timeout or interrupt disturbs.
SetupSpec == SetupInit /\ [][SetupNext]_vars

Started(w) == wpc[w] # "unstarted"

Classifying == \E w \in Workers : wpc[w] = "categorize"

\* C12: validCategories is assigned only while no worker goroutine has been
\* started: every change of it is one of the counted assignments, and once a
\* worker runs (and when one reads it in Categorize) nothing assigns it.
C12_PublishThenFreeze ==
    /\ [][registryWrites' # registryWrites
            => \A w \in Workers : ~Started(w) /\ wpc'[w] = "unstarted"]_vars
    /\ [][validCategories' # validCategories
            => registryWrites' = registryWrites + 1]_vars
    /\ [][(\E w \in Workers : Started(w))
            => (validCategories' = validCategories
                /\ registryWrites' = registryWrites)]_vars

\* a worker classifies under a registry that was assigned twice, by main and
\* by the discovery
C12_Witness ==
    /\ Classifying
    /\ registryWrites = 2
    /\ validCategories # manual
    /\ validCategories # DefaultCategories

\* the destination has no eligible category subfolder: it is missing, or it
\* holds no subdirectory that is not hidden
NoEligibleFolder(d) ==
    \/ d.state = "missing"
    \/ d.state = "present" /\ \A i \in 1..Len(d.dirs) : d.dirs[i].hidden

\* the directory of the path rel and the directories it lies in
RECURSIVE SelfAndAbove(_, _)
SelfAndAbove(d, rel) ==
    IF rel = "" THEN {}
    ELSE LET e == CHOOSE x \in Members(d.dirs) : x.rel = rel
         IN  {e} \cup SelfAndAbove(d, e.under)

\* C29: for a destination that exists and that the walk gets through, the
\* registry the discovery publishes is the list of the relative paths of the
\* directories of at most 3 segments that neither have a name beginning with
\* "." nor lie in a directory that has, in the order of the walk, with "Misc"
\* after them unless it is among them; the subfolders Work/Projects and
\* Personal give Personal, Work, Work/Projects, Misc.
C29_Discovered ==
    (runPc \notin {"main", "discover"} /\ destDir.state = "present")
        => LET Listed(e) ==
                   /\ e.segments <= 3
                   /\ \A a \in SelfAndAbove(destDir, e.rel) : ~a.hidden
               kept == SelectSeq(destDir.dirs, Listed)
               paths == [i \in 1..Len(kept) |-> kept[i].rel]
           IN  /\ validCategories =
                     IF "Misc" \in Members(paths) THEN paths ELSE Append(paths, "Misc")
               /\ (Len(destDir.dirs) = 3 /\ destDir.dirs[3].rel = "Work/Projects")
                     => validCategories = <<"Personal", "Work", "Work/Projects", "Misc">>

\* a worker classifies under the registry discovered in a destination with a
\* hidden directory inside Work: neither it nor what lies in it is listed
C29_Witness ==
    /\ Classifying
    /\ \E i \in 1..Len(destDir.dirs) : destDir.dirs[i].rel = "Work/.cache/x"
    /\ validCategories = <<"Work", "Work/b", "Misc">>

\* C13: with a manual list configured and a destination without an eligible
\* category subfolder, the registry under which files are classified is the
\* manual list.
C13_ManualListKept ==
    (Classifying /\ Len(manual) > 0 /\ NoEligibleFolder(destDir))
        => validCategories = manual

\* C14: whenever a worker classifies a file the registry contains "Misc".
C14_RegistryHasMisc ==
    Classifying => \E i \in 1..Len(validCategories) : validCategories[i] = "Misc"

\* ------------------------------------------- one Categorize call, attempt by attempt
idleRun == UNCHANGED runVars /\ idleMove /\ idleSetup /\ idleText

\* one iteration of the correction loop: the request goes out unless the
\* context is done, and the service answers
Attempt ==
    /\ call.status = "loop"
    /\ \E reply \in Replies :
        /\ call' = CategorizeAttempt(call, callCtx, reply, validCategories)
        /\ attempts' = Append(attempts, [sent |-> RequestSent(callCtx),
                                         messages |-> Messages(call),
                                         reply |-> reply])
    /\ UNCHANGED <<callCtx, validCategories>>
    /\ idleRun

\* the context of the call is done between two attempts: the file's timeout
\* has passed or the parent context was cancelled
CallCancel ==
    /\ call.status = "loop"
    /\ ~callCtx
    /\ callCtx' = TRUE
    /\ UNCHANGED <<call, attempts, validCategories>>
    /\ idleRun

CatNext == Attempt \/ CallCancel

\* the registries a call is made under: the default one, and one discovered
\* in a destination with the folders "R&D" and "Work"
CallRegistries == {DefaultCategories, <<"R&D", "Work", "Misc">>}

CatInit ==
    /\ InitRunState
    /\ runPc = "scan"
    /\ wpc = [w \in Workers |-> "select"]
    /\ validCategories \in CallRegistries
    /\ InitCallIdle
    /\ InitMoveIdle
    /\ InitSetupIdle
    /\ InitTextIdle

CatSpec == CatInit /\ [][CatNext]_vars

\* the cause attempt i ended with ("nil": its reply validated)
AttemptCause(i) ==
    executeCategorization(~attempts[i].sent, attempts[i].reply, validCategories)[2]

Returned == call.status = "returned"

\* C4: a Categorize call sends at most 3 classification requests; every
\* failed attempt, whatever its cause, uses up exactly one of the 3 attempts;
\* an attempt whose reply validates is the last one, and the call then returns
\* its result with a nil error.
C4_ThreeAttempts ==
    /\ call.sent <= 3
    /\ Len(attempts) <= 3
    /\ call.sent = Cardinality({i \in 1..Len(attempts) : attempts[i].sent})
    /\ call.attempt = Cardinality({i \in 1..Len(attempts) : AttemptCause(i) # "nil"})
    /\ \A i \in 1..Len(attempts) :
          AttemptCause(i) = "nil"
              => /\ i = Len(attempts)
                 /\ Returned
                 /\ call.err = NoErr
                 /\ call.result = parseAndValidate(attempts[i].reply.content,
                                                   validCategories)[1]
    /\ ~Returned => \A i \in 1..Len(attempts) : AttemptCause(i) # "nil"

\* the third request was the first whose reply validated, after two failures
\* of different kinds
C4_Witness ==
    /\ Returned
    /\ call.err = NoErr
    /\ call.sent = 3
    /\ AttemptCause(1) = "status"
    /\ AttemptCause(2) = "invalid_category"

\* C15: a result Categorize returns with a nil error has a category that is a
\* member of the registry, a confidence above 0 and a title that is not empty.
C15_ResultIsValid ==
    (Returned /\ call.err = NoErr)
        => /\ call.result.category \in Members(validCategories)
           /\ call.result.confidence > 0
           /\ call.result.title # ""

\* C18: the request of the first attempt carries the system and the user
\* message and nothing else; the request of every later attempt k carries
\* these two and two more, the last of them with the error of attempt k-1.
C18_CorrectiveRetry ==
    \A k \in 1..Len(attempts) :
        LET m == attempts[k].messages IN
        /\ SubSeq(m, 1, 2) = BaseMessages
        /\ k = 1 => Len(m) = 2
        /\ k >= 2 =>
              /\ Len(m) = 4
              /\ m[3].role = "assistant"
              /\ m[4].role = "user"
              /\ m[4].reason = AttemptErr(AttemptCause(k - 1), k - 1)

\* the third request names the failure of the second attempt, which differs
\* from that of the first
C18_Witness ==
    /\ Len(attempts) = 3
    /\ AttemptCause(1) = "invalid_category"
    /\ AttemptCause(2) = "missing_title"
    /\ attempts[3].sent
    /\ attempts[3].messages[4].reason.cause = "missing_title"
    /\ attempts[2].messages[4].reason.cause = "invalid_category"

\* C5: when all 3 attempts fail Categorize returns the fallback result
\* {Misc, Unknown_Doc, 0} with an error that wraps the error of the third
\* attempt; the fallback result never comes with a nil error, and an error
\* never comes with another result.
C5_FallbackWithError ==
    Returned =>
        /\ (Len(attempts) = 3 /\ \A i \in 1..3 : AttemptCause(i) # "nil")
              => /\ call.result = FallbackResult
                 /\ call.err = [cause |-> AttemptCause(3), attempt |-> 3, wrapped |-> TRUE]
        /\ call.err = NoErr => call.result # FallbackResult
        /\ call.err # NoErr => call.result = FallbackResult

\* three failures of three kinds, the last one a validation failure
C5_Witness ==
    /\ Returned
    /\ Len(attempts) = 3
    /\ AttemptCause(1) = "transport"
    /\ AttemptCause(2) = "nochoices"
    /\ AttemptCause(3) = "invalid_confidence"
    /\ call.result = FallbackResult

\* ------------------------------------------- parseAndValidate on one reply
\* What stands before the object of a reply: nothing, a fence with and without
\* the language tag, a sentence.
Pres ==
    {<<>>,
     <<Piece("fence_json"), Piece("ws")>>,
     <<Piece("fence"), Piece("ws")>>,
     <<Piece("prose"), Piece("ws")>>}

\* What stands after it: nothing, the closing fence, the end-of-turn token,
\* both, a sentence, and a second closing brace followed by text.
Posts ==
    {<<>>,
     <<Piece("ws"), Piece("fence")>>,
     <<Piece("eot")>>,
     <<Piece("ws"), Piece("fence"), Piece("eot")>>,
     <<Piece("ws"), Piece("prose")>>,
     <<Piece("rbrace"), Piece("ws"), Piece("prose")>>}

ParseCategories == {"Work", "work", "Misc", "R&D", "Unknown", "", "Work<|eot_id|>"}
ParseTitles == {"Report", "a/b", "", EotToken}
ParseScores == {0 - 1, 0, 1}

Defects == {"unterminated", "trailing_comma", "unquoted_key", "wrong_type"}
Fields == {"category", "title", "confidence_score"}

\* The objects: every choice of the three values, written well, with one of
\* the defects, without one or all of the fields, or with one more field.
ParseObjects ==
    LET Written == {Object(c, t, f) : c \in ParseCategories, t \in ParseTitles,
                                      f \in ParseScores}
    IN  Written
        \cup {[o EXCEPT !.defect = d] : o \in Written, d \in Defects}
        \cup {[o EXCEPT !.missing = m] : o \in Written, m \in Fields \cup {"all"}}
        \cup {[o EXCEPT !.extra = TRUE] : o \in Written}

\* the text of a reply
Text(r) == r.pre \o <<ObjectPiece(r.obj)>> \o r.post

\* The replies: an object that lacks its closing brace is not followed by one
\* (the two would read as an object that has it).
ParseReplies ==
    {r \in [pre : Pres, obj : ParseObjects, post : Posts] :
        ~(r.obj.defect = "unterminated" /\ r.post # <<>> /\ Head(r.post).t = "rbrace")}

ParseInit ==
    /\ InitRunState
    /\ runPc = "scan"
    /\ wpc = [w \in Workers |-> "select"]
    /\ validCategories \in CallRegistries
    /\ InitCallIdle
    /\ InitMoveIdle
    /\ InitSetupIdle
    /\ InitSumIdle
    /\ InitBudgetIdle
    /\ InitToolIdle
    /\ answer \in ParseReplies
    /\ parsed = NotParsed

\* e.parseAndValidate(content)
Parse ==
    /\ ~parsed.done
    /\ LET out == parseAndValidate(Text(answer), validCategories) IN
       parsed' = [done |-> TRUE, result |-> out[1], cause |-> out[2]]
    /\ UNCHANGED <<answer, runVars, catVars, moveVars, setupVars, sumVars,
                   budgetVars, toolVars>>

ParseNext == Parse

ParseSpec == ParseInit /\ [][ParseNext]_vars

\* the reply is the object alone, or the object inside a fenced code block
Bare(r) == r.pre = <<>> /\ r.post = <<>>
Fenced(r) ==
    /\ r.pre \in {<<Piece("fence_json"), Piece("ws")>>, <<Piece("fence"), Piece("ws")>>}
    /\ r.post = <<Piece("ws"), Piece("fence")>>

WellFormed(o) == o.defect = "none" /\ o.missing = "none" /\ ~o.extra

C17_TrailingRejected ==
    (parsed.done
     /\ \E i \in 1..Len(answer.post) : answer.post[i].t \in {"prose", "rbrace", "object"})
        => parsed.cause # "nil"

\* ------------------------------- SetCategories, then the check of a category
\* the lists SetCategories is called with: none, and lists in which the case
\* of a name differs from the one in the registry
PublishLists == {<<>>, <<"Work">>, <<"work", "Misc">>, <<"Misc", "R&D", "Unknown">>}

\* the replies whose category is then checked: objects that are valid but
\* for their category
PublishReplies ==
    [pre : {<<>>},
     obj : {Object(c, "Report", 1) : c \in ParseCategories},
     post : {<<>>}]

\* e.SetCategories(categories), called once
Publish ==
    /\ registryWrites = 0
    /\ validCategories' = SetCategories(validCategories, manual)
    /\ registryWrites' = registryWrites + 1
    /\ UNCHANGED <<manual, destDir, call, callCtx, attempts,
                   runVars, moveVars, parseVars, sumVars, budgetVars,
                   toolVars>>

\* a reply is validated against the registry SetCategories has left
Validate ==
    /\ registryWrites = 1
    /\ Parse

PublishNext == Publish \/ Validate

PublishInit ==
    /\ InitRunState
    /\ runPc = "main"
    /\ wpc = WorkersBeforeRun
    /\ validCategories \in CallRegistries
    /\ InitCallIdle
    /\ InitMoveIdle
    /\ InitSumIdle
    /\ InitBudgetIdle
    /\ InitToolIdle
    /\ manual \in PublishLists
    /\ destDir = [state |-> "missing", dirs |-> <<>>]
    /\ registryWrites = 0
    /\ answer \in PublishReplies
    /\ parsed = NotParsed

PublishSpec == PublishInit /\ [][PublishNext]_vars

\* C28: SetCategories leaves the registry as it is when the list is empty and
\* makes the list the registry otherwise; a category is then accepted exactly
\* when it equals, character by character, an entry of that registry.
C28_PublishAndMember ==
    /\ [][registryWrites' # registryWrites
            => validCategories' = IF manual = <<>> THEN validCategories ELSE manual]_vars
    /\ []((registryWrites = 1 /\ manual # <<>>) => validCategories = manual)
    /\ [](parsed.done
            => (parsed.cause = "nil"
                  <=> \E i \in 1..Len(validCategories) :
                          validCategories[i] = StripEot(answer.obj.category)))
    /\ [](parsed.done
            => parsed.cause \in {"nil", "invalid_category", "missing_category"})

\* "Work" is refused under a registry that was replaced by one with "work"
C28_Witness ==
    /\ registryWrites = 1
    /\ manual = <<"work", "Misc">>
    /\ validCategories = manual
    /\ parsed.done
    /\ answer.obj.category = "Work"
    /\ parsed.cause = "invalid_category"

\* ------------------------------- Categorize before its loop: the text to send
\* cm.maxTokens, the context window the engine is made with
maxTokens == 10

MaxDocTokens == 8
MaxSummaryTokens == 4
MaxTextTokens == 9
MaxRounds == 7

\* GetBudgets: content = int(float64(cm.maxTokens) * 0.60)
contentBudget == (maxTokens * 60) \div 100

\* chunkSize := int(float64(contentBudget) * 0.8)
chunkSize == (contentBudget * 8) \div 10

\* A text is the sequence of its tokens. The tokens of a document are
\* 1, 2, ...; a summary is made of tokens 0; the "\n\n" between two summaries
\* is the token -1 and the marker of a truncation the token -2.
Documents == {[i \in 1..n |-> i] : n \in 0..MaxDocTokens}
Summary(k) == [i \in 1..k |-> 0]
Separator == <<0 - 1>>
Marker == <<0 - 2>>
\* "\n[... truncated ...]\n", the marker of slidingWindow
TruncatedMarker == <<0 - 3>>

\* e.ctxMgr.tokenizer.CountTokens(text)
CountTokens(t) == Len(t)

\* ContextManager.Chunk: the text itself when it fits, else the slices of
\* chunkSize tokens, the last one shorter
Chunk(t, size) ==
    IF Len(t) <= size THEN <<t>>
    ELSE [k \in 1..((Len(t) + size - 1) \div size) |->
             SubSeq(t, (k - 1) * size + 1,
                    IF k * size > Len(t) THEN Len(t) ELSE k * size)]

\* a join that puts the last summary first
RECURSIVE JoinReversed(_)
JoinReversed(ss) ==
    IF ss = <<>> THEN <<>>
    ELSE IF Len(ss) = 1 THEN ss[1]
    ELSE JoinReversed(Tail(ss)) \o Separator \o ss[1]

\* strings.Join(summaries, "\n\n")
RECURSIVE Join(_)
Join(ss) ==
    IF ss = <<>> THEN <<>>
    ELSE IF Len(ss) = 1 THEN ss[1]
    ELSE ss[1] \o Separator \o Join(Tail(ss))

\* a truncation that keeps the beginning
headOnly(tokens, limit) == SubSeq(tokens, 1, limit)

\* ContextManager.middleExtraction: headSize := int(float64(limit) * 0.4)
middleExtraction(tokens, limit) ==
    LET headSize == (limit * 4) \div 10
        tailSize == limit - headSize
    IN  SubSeq(tokens, 1, headSize) \o Marker
        \o SubSeq(tokens, Len(tokens) - tailSize + 1, Len(tokens))

\* ContextManager.Truncate with StrategyMiddleExtraction
Truncate(t, limit) ==
    IF Len(t) <= limit THEN t ELSE middleExtraction(t, limit)

\* currentTokens > contentBudget in Categorize, currentTokens > limit in
\* MapReduceSummarize (limit is contentBudget)
OverBudget(t) == CountTokens(t) > contentBudget

sumRest ==
    UNCHANGED <<runVars, catVars, moveVars, setupVars, parseVars, budgetVars,
                toolVars>>

\* Categorize up to its first call of the service: a text within the budget
\* goes on as it is, one above it is handed to MapReduceSummarize, which
\* chunks it
Prepare ==
    /\ sumPc = "start"
    /\ IF OverBudget(doc)
       THEN /\ sumPc' = "map"
            /\ sumText' = doc
            /\ chunkIdx' = 1
            /\ rounds' = 1
       ELSE /\ sumPc' = "loop"
            /\ UNCHANGED <<sumText, chunkIdx, rounds>>
    /\ UNCHANGED <<doc, text, summaries, sumFailed>>
    /\ sumRest

\* summarizeChunk returns a summary, of any length. After the last chunk the
\* summaries are joined: MapReduceSummarize calls itself on the joined text
\* when that is above the limit and returns it otherwise.
SummarizeChunk ==
    /\ sumPc = "map"
    /\ \E k \in 0..MaxSummaryTokens :
        LET all == Append(summaries, Summary(k))
            combined == Join(all)
        IN  /\ Len(combined) <= MaxTextTokens
            /\ IF chunkIdx < Len(Chunk(sumText, chunkSize))
               THEN /\ summaries' = all
                    /\ chunkIdx' = chunkIdx + 1
                    /\ UNCHANGED <<text, sumPc, sumText, rounds>>
               ELSE IF OverBudget(combined)
               THEN /\ rounds < MaxRounds
                    /\ rounds' = rounds + 1
                    /\ sumText' = combined
                    /\ chunkIdx' = 1
                    /\ summaries' = <<>>
                    /\ UNCHANGED <<text, sumPc>>
               ELSE /\ text' = combined
                    /\ sumPc' = "loop"
                    /\ UNCHANGED <<sumText, chunkIdx, summaries, rounds>>
    /\ UNCHANGED <<doc, sumFailed>>
    /\ sumRest

\* summarizeChunk returns an error: every MapReduceSummarize call in progress
\* returns it, and Categorize truncates the text it was called with
ChunkFails ==
    /\ sumPc = "map"
    /\ sumFailed' = TRUE
    /\ text' = Truncate(doc, contentBudget)
    /\ sumPc' = "loop"
    /\ UNCHANGED <<doc, sumText, chunkIdx, summaries, rounds>>
    /\ sumRest

SumNext == Prepare \/ SummarizeChunk \/ ChunkFails

SumInit ==
    /\ InitRunState
    /\ runPc = "scan"
    /\ wpc = [w \in Workers |-> "select"]
    /\ InitEngine
    /\ InitCallIdle
    /\ InitMoveIdle
    /\ InitSetupIdle
    /\ InitParseIdle
    /\ InitBudgetIdle
    /\ InitToolIdle
    /\ doc \in Documents
    /\ text = doc
    /\ sumPc = "start"
    /\ sumText = <<>>
    /\ chunkIdx = 0
    /\ summaries = <<>>
    /\ rounds = 0
    /\ sumFailed = FALSE

SumSpec == SumInit /\ [][SumNext]_vars

\* C19: MapReduceSummarize goes through at most 5 rounds, whatever the
\* lengths of the summaries the service returns.
C19_RoundsBounded == rounds <= 5

RECURSIVE Parts(_)
Parts(t) ==
    LET IsSeparator(i) == <<t[i]>> = Separator
        seps == {i \in 1..Len(t) : IsSeparator(i)}
        first == CHOOSE i \in seps : \A k \in seps : i <= k
    IN  IF seps = {} THEN <<t>>
        ELSE <<SubSeq(t, 1, first - 1)>> \o Parts(SubSeq(t, first + 1, Len(t)))

MaxBodyTokens == 3

\* GetBudgets: system = int(float64(cm.maxTokens) * 0.10)
systemBudget == (maxTokens * 10) \div 100

\* The instructions, the format and the list of the categories: more tokens
\* than systemBudget, as the prompt of any registry has.
systemPrompt == <<1, 2, 3>>

\* ContextManager.slidingWindow: headSize := limit / 2
slidingWindow(tokens, limit) ==
    LET headSize == limit \div 2
        tailSize == limit - headSize
    IN  SubSeq(tokens, 1, headSize) \o TruncatedMarker
        \o SubSeq(tokens, Len(tokens) - tailSize + 1, Len(tokens))

\* ContextManager.Truncate with StrategySlidingWindow
TruncateSliding(t, limit) ==
    IF Len(t) <= limit THEN t ELSE slidingWindow(t, limit)

\* "Document text snippet:\n" before the text, "Previous attempt failed
\* validation." and "Your previous response was invalid: ... Please provide a
\* strictly valid JSON object following the schema." around the error: each
\* counted as the one token it is at least
PrefixTokens == 1
NoteTokens == 1
CorrectionTokens == 1

\* userPrompt := fmt.Sprintf("Document text snippet:\n%s", text)
UserPromptTokens(t) == PrefixTokens + CountTokens(t)

\* What the service answers to a request of the call: an object that
\* validates, and a status other than 200 without a body and with one.
RequestReplies ==
    {[kind |-> "content", content |-> BareObject(Object("Work", "Report", 1)), body |-> 0]}
    \cup {[kind |-> "status", content |-> NoContent, body |-> n] : n \in {0, MaxBodyTokens}}

\* the tokens of %v of lastErr: the text of the error and, in
\* "MLX server error (status %d): %s", the body of the response
ErrTokens(reply) == 1 + reply.body

\* one iteration of the correction loop, the text being ready
RequestAttempt ==
    /\ sumPc = "loop"
    /\ call.status = "loop"
    /\ \E reply \in RequestReplies :
        /\ call' = CategorizeAttempt(call, callCtx, reply, validCategories)
        /\ attempts' = Append(attempts, [sent |-> RequestSent(callCtx),
                                         messages |-> Messages(call),
                                         reply |-> reply])
    /\ UNCHANGED <<callCtx, validCategories>>
    /\ UNCHANGED <<runVars, moveVars, setupVars, parseVars, sumVars,
                   budgetVars, toolVars>>

RequestNext == Prepare \/ SummarizeChunk \/ ChunkFails \/ RequestAttempt

\* One Categorize call from its first line to its return.
RequestSpec == SumInit /\ [][RequestNext]_vars

\* the tokens of the messages of the k-th request
RequestTokens(k) ==
    CountTokens(TruncateSliding(systemPrompt, systemBudget))
    + UserPromptTokens(text)
    + IF Len(attempts[k].messages) > Len(BaseMessages)
      THEN NoteTokens + CorrectionTokens + ErrTokens(attempts[k - 1].reply)
      ELSE 0

\* C22: the messages of every request Categorize sends, the first and the
\* retries, hold no more than maxTokens tokens together.
C22_RequestWithinCeiling ==
    \A k \in 1..Len(attempts) :
        attempts[k].sent => RequestTokens(k) <= maxTokens

\* ------------------------------------------------ MoveFile on one folder
MoveNext ==
    \E m \in Movers :
        /\ \/ Call(m)
           \/ Stat(m)
           \/ Rename(m)
           \/ Copy(m)
           \/ Remove(m)
        /\ UNCHANGED <<runVars, catVars>>
        /\ idleSetup
        /\ idleText

MoveInit == InitRun /\ InitCallIdle /\ InitMove /\ InitSetupIdle /\ InitTextIdle

MoveSpec == MoveInit /\ [][MoveNext]_vars

\* C2: two files of different content that ask for the same folder and name
\* are moved one after the other, the name being free for the first: both
\* contents are then in the folder, the first under the name and the second
\* under the name with the first 8 hex digits of its content's hash.
C2_CollisionKeepsBoth ==
    \A a, b \in Movers :
        (/\ a # b
         /\ mpc[a] = "done" /\ mpc[b] = "done"
         /\ a \in after[b]
         /\ fileContent[a] # fileContent[b]
         /\ dstPath[a] = PlainName
         /\ \A c \in Movers \ {a, b} : mpc[c] = "idle")
        => /\ dst[PlainName] = fileContent[a]
           /\ dstPath[b] = Hash8(fileContent[b])
           /\ dstPath[b] # PlainName
           /\ dst[dstPath[b]] = fileContent[b]
           /\ ~srcExists[a] /\ ~srcExists[b]

\* two files whose contents share the hash prefix, moved one after the other
C2_Witness ==
    /\ mpc[1] = "done" /\ mpc[2] = "done"
    /\ 1 \in after[2]
    /\ fileContent[1] # fileContent[2]
    /\ Hash8(fileContent[1]) = Hash8(fileContent[2])
    /\ dstPath[1] = PlainName
    /\ dst[PlainName] = fileContent[1]
    /\ dst[Hash8(fileContent[2])] = fileContent[2]

\* C25: a MoveFile call that returned an error has left its source file at
\* its path with the content it had, and processFile counts the file as failed
\* and not as processed, whatever Categorize had returned.
C25_MoveErrorKeepsSource ==
    /\ [](\A m \in Movers :
            mpc[m] = "failed"
                => /\ srcExists[m]
                   /\ \A e \in BOOLEAN : MoveCounts(e, TRUE) = "failed")
    /\ [][\A m \in Movers :
            /\ fileContent'[m] = fileContent[m]
            /\ mpc[m] = "failed" => (mpc'[m] = "failed" /\ srcExists'[m])
            /\ (srcExists[m] /\ ~srcExists'[m]) => mpc'[m] = "done"]_vars

\* the rename fell through, the copy was written and os.Remove failed: the
\* call returns an error with the file at both places
C25_Witness ==
    \E m \in Movers :
        /\ mpc[m] = "failed"
        /\ srcExists[m]
        /\ dstPath[m] # PlainName
        /\ dst[dstPath[m]] = fileContent[m]
        /\ dst[PlainName] # fileContent[m]

\* ------------------------------------------------ the budgets of a ceiling
\* the ceilings NewContextManager is called with: none and negative ones,
\* every small one, and the ceiling of TestContextManager_Budgets
MaxCeiling == 120
TestCeiling == 1000
Ceilings == ((0 - 2)..MaxCeiling) \cup {TestCeiling}

\* what a mistaken rounding to the nearest token would return
roundedBudgets(m) ==
    <<(m * 10 + 50) \div 100, (m * 20 + 50) \div 100,
      (m * 60 + 50) \div 100, (m * 10 + 50) \div 100>>

\* NewContextManager: if maxTokens <= 0 { maxTokens = 4096 }
NewContextManager(m) == IF m <= 0 THEN 4096 ELSE m

\* cm.GetBudgets(): int(float64(cm.maxTokens) * pct) for the percentages
\* 0.10, 0.20, 0.60 and 0.10; the conversion to int drops the fraction
GetBudgets(m) ==
    <<(m * 10) \div 100, (m * 20) \div 100, (m * 60) \div 100,
      (m * 10) \div 100>>

BudgetInit ==
    /\ InitRun
    /\ InitCallIdle
    /\ InitMoveIdle
    /\ InitSetupIdle
    /\ InitParseIdle
    /\ InitSumIdle
    /\ InitToolIdle
    /\ ceiling \in Ceilings
    /\ budgets = <<>>

\* NewContextManager(tokenizer, ceiling).GetBudgets()
Budgets ==
    /\ budgets = <<>>
    /\ budgets' = GetBudgets(NewContextManager(ceiling))
    /\ UNCHANGED <<ceiling, runVars, catVars, moveVars, setupVars, parseVars,
                   sumVars, toolVars>>

BudgetNext == Budgets

BudgetSpec == BudgetInit /\ [][BudgetNext]_vars

\* C30: the budgets of a ceiling m > 0 are the floors of a tenth, a fifth,
\* three fifths and a tenth of m, each at most m and together at most m; a
\* ceiling of 0 or less has the budgets of 4096, and 1000 has (100, 200, 600,
\* 100).
C30_Budgets ==
    budgets # <<>> =>
        LET m == IF ceiling <= 0 THEN 4096 ELSE ceiling
            IsFloor(b, num, den) == b * den <= m * num /\ m * num < (b + 1) * den
            Sum == budgets[1] + budgets[2] + budgets[3] + budgets[4]
        IN  /\ Len(budgets) = 4
            /\ IsFloor(budgets[1], 1, 10)
            /\ IsFloor(budgets[2], 1, 5)
            /\ IsFloor(budgets[3], 3, 5)
            /\ IsFloor(budgets[4], 1, 10)
            /\ \A i \in 1..4 : budgets[i] >= 0 /\ budgets[i] <= m
            /\ Sum <= m
            /\ ceiling = TestCeiling => budgets = <<100, 200, 600, 100>>
            /\ ceiling <= 0 => budgets = <<409, 819, 2457, 409>>

\* a ceiling none of whose shares is whole: 0.7, 1.4, 4.2 and 0.7 become
\* 0, 1, 4 and 0, and two tokens of the seven are in no budget
C30_Witness ==
    /\ ceiling = 7
    /\ budgets = <<0, 1, 4, 0>>

\* ------------------------------------------------------ Truncate on its own
MaxLimit == 9
MaxTokensLen == 8

StrategySlidingWindow == "sliding_window"
StrategyMiddleExtraction == "middle_extraction"
StrategyMapReduce == "map_reduce"
Strategies ==
    {StrategySlidingWindow, StrategyMiddleExtraction, StrategyMapReduce}

\* the texts a function is called with: token k of a text is the number k
Texts == {[i \in 1..n |-> i] : n \in 0..MaxTokensLen}

\* the run-time panic of a slice expression whose indices are out of range
SlicePanic == [panic |-> TRUE, text |-> <<>>]

\* the function has returned the text t
ReturnedText(t) == [panic |-> FALSE, text |-> t]

\* the quotient of Go's integers and of int(float64), which drop the fraction
\* of a negative number towards zero
Quo(a, b) == IF a >= 0 THEN a \div b ELSE 0 - ((0 - a) \div b)

\* tokens[lo:hi] is evaluated without a panic
InRange(tokens, lo, hi) == 0 <= lo /\ lo <= hi /\ hi <= Len(tokens)

\* headSize in slidingWindow (limit / 2) and in middleExtraction
\* (int(float64(limit) * 0.4))
headSize(limit, strategy) ==
    IF strategy = StrategyMiddleExtraction THEN Quo(limit * 4, 10)
    ELSE Quo(limit, 2)

\* a Truncate that has one strategy only
slidingAlways(t, limit, strategy) ==
    IF Len(t) <= limit \/ limit >= 0 THEN ReturnedText(TruncateSliding(t, limit))
    ELSE SlicePanic

\* cm.Truncate(text, limit, strategy): the switch sends every strategy but
\* StrategyMiddleExtraction to slidingWindow
TruncateWith(t, limit, strategy) ==
    LET head == headSize(limit, strategy)
        tail == limit - head
    IN  IF Len(t) <= limit THEN ReturnedText(t)
        ELSE IF ~InRange(t, 0, head) \/ ~InRange(t, Len(t) - tail, Len(t))
        THEN SlicePanic
        ELSE IF strategy = StrategyMiddleExtraction
        THEN ReturnedText(Truncate(t, limit))
        ELSE ReturnedText(TruncateSliding(t, limit))

TruncateInit ==
    /\ InitRun
    /\ InitCallIdle
    /\ InitMoveIdle
    /\ InitSetupIdle
    /\ InitParseIdle
    /\ InitSumIdle
    /\ InitBudgetIdle
    /\ toolArgs \in [text : Texts, limit : (0 - 2)..MaxLimit,
                     strategy : Strategies]
    /\ toolRet = [pc |-> "called"]

toolRest ==
    UNCHANGED <<toolArgs, runVars, catVars, moveVars, setupVars, parseVars,
                sumVars, budgetVars>>

TruncateCall ==
    /\ toolRet.pc = "called"
    /\ toolRet' = [pc |-> "returned",
                   out |-> TruncateWith(toolArgs.text, toolArgs.limit,
                                        toolArgs.strategy)]
    /\ toolRest

TruncateNext == TruncateCall

TruncateSpec == TruncateInit /\ [][TruncateNext]_vars

\* C31: Truncate returns a text within the limit as it is; a longer one
\* becomes its first h tokens, the marker of the strategy and its last
\* limit - h tokens, h being the floor of half the limit for the sliding
\* window and of 0.4 times the limit for the middle extraction; limit tokens
\* of the text are kept, none twice, and no limit >= 0 makes it panic.
C31_Truncate ==
    (toolRet.pc = "returned" /\ toolArgs.limit >= 0) =>
        LET t == toolArgs.text
            n == Len(t)
            limit == toolArgs.limit
            middle == toolArgs.strategy = StrategyMiddleExtraction
            out == toolRet.out.text
            marker == IF middle THEN Marker ELSE TruncatedMarker
        IN  /\ ~toolRet.out.panic
            /\ n <= limit => out = t
            /\ n > limit =>
                \E h \in 0..limit :
                    /\ IF middle
                       THEN h * 10 <= 4 * limit /\ 4 * limit < (h + 1) * 10
                       ELSE h * 2 <= limit /\ limit < (h + 1) * 2
                    /\ Len(out) = limit + 1
                    /\ \A k \in 1..h : out[k] = t[k]
                    /\ out[h + 1] = marker[1]
                    /\ \A k \in 1..(limit - h) :
                            out[h + 1 + k] = t[n - (limit - h) + k]
                    /\ h < n - (limit - h) + 1
                    /\ Cardinality({out[k] : k \in 1..Len(out)}
                                   \cap {t[k] : k \in 1..n}) = limit

\* a text of eight tokens cut to five by the middle extraction: two tokens of
\* the head, the marker, three of the tail
C31_Witness ==
    /\ toolRet.pc = "returned"
    /\ toolArgs.strategy = StrategyMiddleExtraction
    /\ toolArgs.limit = 5
    /\ Len(toolArgs.text) = 8
    /\ toolRet.out = ReturnedText(<<1, 2>> \o Marker \o <<6, 7, 8>>)

\* --------------------------------------------------------- Chunk on its own
MaxChunkSize == 5

\* an advance that starts a chunk on the last token of the one before it
advanceOverlap(i, size) == IF size > 1 THEN i + size - 1 ELSE i + size

\* i += chunkSize
Advance(i, size) == i + size

\* end := i + chunkSize; if end > len(tokens) { end = len(tokens) }
ChunkEnd(i, size, n) == IF i + size > n THEN n ELSE i + size

ChunkInit ==
    /\ InitRun
    /\ InitCallIdle
    /\ InitMoveIdle
    /\ InitSetupIdle
    /\ InitParseIdle
    /\ InitSumIdle
    /\ InitBudgetIdle
    /\ toolArgs \in [text : Texts, chunkSize : (0 - 1)..MaxChunkSize]
    /\ toolRet = [pc |-> "called", i |-> 0, chunks |-> <<>>]

\* Chunk up to its loop: a text of at most chunkSize tokens is returned alone
ChunkEnter ==
    /\ toolRet.pc = "called"
    /\ toolRet' = IF Len(toolArgs.text) <= toolArgs.chunkSize
                  THEN [toolRet EXCEPT !.pc = "returned",
                                       !.chunks = <<toolArgs.text>>]
                  ELSE [toolRet EXCEPT !.pc = "loop"]
    /\ toolRest

\* one turn of the loop: chunks = append(chunks, Decode(tokens[i:end])). A
\* loop that does not advance appends for ever; the model follows it for one
\* chunk more than the text has tokens.
ChunkStep ==
    /\ toolRet.pc = "loop"
    /\ toolRet.i < Len(toolArgs.text)
    /\ Len(toolRet.chunks) <= Len(toolArgs.text)
    /\ LET i == toolRet.i
           end == ChunkEnd(i, toolArgs.chunkSize, Len(toolArgs.text))
       IN  toolRet' =
               IF ~InRange(toolArgs.text, i, end)
               THEN [toolRet EXCEPT !.pc = "panicked"]
               ELSE [toolRet EXCEPT
                        !.i = Advance(i, toolArgs.chunkSize),
                        !.chunks = Append(@, SubSeq(toolArgs.text, i + 1, end))]
    /\ toolRest

\* i < len(tokens) is false: return chunks
ChunkExit ==
    /\ toolRet.pc = "loop"
    /\ toolRet.i >= Len(toolArgs.text)
    /\ toolRet' = [toolRet EXCEPT !.pc = "returned"]
    /\ toolRest

ChunkNext == ChunkEnter \/ ChunkStep \/ ChunkExit

ChunkSpec == ChunkInit /\ [][ChunkNext]_vars

\* the chunks one after the other
RECURSIVE Concat(_)
Concat(ss) == IF ss = <<>> THEN <<>> ELSE ss[1] \o Concat(Tail(ss))

\* C32: Chunk returns the text alone when it has at most chunkSize tokens;
\* else, for n tokens and chunkSize >= 1, the ceiling of n / chunkSize chunks
\* of chunkSize tokens each, the last one possibly shorter, which put one
\* after the other are the tokens of the text.
C32_Chunk ==
    LET t == toolArgs.text
        n == Len(t)
        size == toolArgs.chunkSize
        chunks == toolRet.chunks
        count == Len(chunks)
    IN  /\ (toolRet.pc = "returned" /\ n <= size) => chunks = <<t>>
        /\ size >= 1 => toolRet.pc # "panicked"
        /\ (toolRet.pc = "loop" /\ size >= 1) =>
                /\ toolRet.i = count * size
                /\ \A k \in 1..count : chunks[k] # <<>>
        /\ (toolRet.pc = "returned" /\ n > size /\ size >= 1) =>
                /\ (count - 1) * size < n
                /\ n <= count * size
                /\ \A k \in 1..(count - 1) : Len(chunks[k]) = size
                /\ Len(chunks[count]) >= 1
                /\ Len(chunks[count]) <= size
                /\ Concat(chunks) = t
                /\ chunks = Chunk(t, size)

\* eight tokens in chunks of three: two whole chunks and a last one of two
C32_Witness ==
    /\ toolRet.pc = "returned"
    /\ toolArgs.chunkSize = 3
    /\ toolRet.chunks = <<<<1, 2, 3>>, <<4, 5, 6>>, <<7, 8>>>>

\* ---------------------------------------- the chunk size of MapReduceSummarize
MaxWindow == 12

\* chunkSize := int(float64(contentBudget) * 0.8), contentBudget from
\* GetBudgets, for the context window m
SummarizeChunkSize(m) == Quo(GetBudgets(m)[3] * 8, 10)

\* C37: a text above the content budget of a context window of one token or
\* more, chunked with the size MapReduceSummarize passes for that window, has
\* non-empty chunks only, and every turn of Chunk's loop advances.
C37_ChunkingAdvances ==
    \A m \in 1..MaxWindow :
        (/\ toolArgs.chunkSize = SummarizeChunkSize(NewContextManager(m))
         /\ Len(toolArgs.text) > GetBudgets(NewContextManager(m))[3])
            => /\ \A k \in 1..Len(toolRet.chunks) : toolRet.chunks[k] # <<>>
               /\ toolRet.pc # "panicked"
               /\ toolRet.pc = "loop" => toolRet.i >= Len(toolRet.chunks)

\* ---------------------------------------- the sanitizers, rune by rune
\* A string is the sequence of its runes. "a" stands for the letters, the
\* digits and "-", which every step keeps; ":" for the characters the
\* ReplaceAll calls turn into "_"; "&" for the runes the filter turns into "_".
MaxNameLen == 4
Runes == {"a", "_", ".", " ", "/", ":", "&"}
Names == UNION {[1..n -> Runes] : n \in 0..MaxNameLen}
Unnamed == <<"u", "n", "n", "a", "m", "e", "d">>
Sanitizers == {"SanitizeFilename", "SanitizeCategory"}

\* the characters of the ReplaceAll calls at the head of a sanitizer
Replaced(fn) == IF fn = "SanitizeFilename" THEN {"/", ":"} ELSE {":"}

\* the runes the filter writes as they are
Kept(fn) ==
    {"a", "u", "n", "m", "e", "d", "_", ".", " "}
    \cup (IF fn = "SanitizeCategory" THEN {"/"} ELSE {})

\* the ReplaceAll calls and the filter loop with its strings.Builder
Filter(fn, s) ==
    [k \in 1..Len(s) |->
        IF s[k] \in Replaced(fn) \/ s[k] \notin Kept(fn) THEN "_" ELSE s[k]]

\* a Trim that takes one rune off each end
trimOne(s, cutset) ==
    LET a == IF s # <<>> /\ s[1] \in cutset THEN Tail(s) ELSE s
    IN  IF a # <<>> /\ a[Len(a)] \in cutset THEN SubSeq(a, 1, Len(a) - 1)
        ELSE a

\* strings.Trim(s, cutset); strings.TrimSpace is Trim with the white space,
\* of which the filter leaves " " only
RECURSIVE TrimCut(_, _)
TrimCut(s, cutset) ==
    IF s = <<>> THEN s
    ELSE IF s[1] \in cutset THEN TrimCut(Tail(s), cutset)
    ELSE IF s[Len(s)] \in cutset THEN TrimCut(SubSeq(s, 1, Len(s) - 1), cutset)
    ELSE s

\* strings.Contains(s, c + c)
ContainsPair(s, c) == \E k \in 1..(Len(s) - 1) : s[k] = c /\ s[k + 1] = c

\* strings.ReplaceAll(s, c + c, c): the pairs from the left, none overlapping
RECURSIVE ReplaceAllPair(_, _)
ReplaceAllPair(s, c) ==
    IF Len(s) < 2 THEN s
    ELSE IF s[1] = c /\ s[2] = c
    THEN <<c>> \o ReplaceAllPair(SubSeq(s, 3, Len(s)), c)
    ELSE <<s[1]>> \o ReplaceAllPair(Tail(s), c)

\* a sanitizer that leaves the doubled characters
collapseNone(s, c) == s

\* for strings.Contains(result, c + c) { result = strings.ReplaceAll(...) }
RECURSIVE Collapse(_, _)
Collapse(s, c) ==
    IF ContainsPair(s, c) THEN Collapse(ReplaceAllPair(s, c), c) ELSE s

\* if result == "" { result = "unnamed" }
OrUnnamed(s) == IF s = <<>> THEN Unnamed ELSE s

SanitizeFilenameRunes(s) ==
    OrUnnamed(TrimCut(Collapse(TrimCut(Filter("SanitizeFilename", s), {" "}),
                               "_"),
                      {".", " ", "_"}))

SanitizeCategoryRunes(s) ==
    OrUnnamed(TrimCut(Collapse(Collapse(TrimCut(Filter("SanitizeCategory", s),
                                                {" "}),
                                        "_"),
                               "/"),
                      {".", " ", "_", "/"}))

SanitizeRunes(fn, s) ==
    IF fn = "SanitizeFilename" THEN SanitizeFilenameRunes(s)
    ELSE SanitizeCategoryRunes(s)

SanitizeInit ==
    /\ InitRun
    /\ InitCallIdle
    /\ InitMoveIdle
    /\ InitSetupIdle
    /\ InitParseIdle
    /\ InitSumIdle
    /\ InitBudgetIdle
    /\ toolArgs \in [fn : Sanitizers, s : Names]
    /\ toolRet = [pc |-> "called", out |-> <<>>, again |-> <<>>]

\* the sanitizer is called on the string
SanitizeOnce ==
    /\ toolRet.pc = "called"
    /\ toolRet' = [toolRet EXCEPT !.pc = "returned",
                                  !.out = SanitizeRunes(toolArgs.fn, toolArgs.s)]
    /\ toolRest

\* the sanitizer is called on what it has returned
SanitizeAgain ==
    /\ toolRet.pc = "returned"
    /\ toolRet' = [toolRet EXCEPT
                      !.pc = "again",
                      !.again = SanitizeRunes(toolArgs.fn, toolRet.out)]
    /\ toolRest

SanitizeNext == SanitizeOnce \/ SanitizeAgain

SanitizeSpec == SanitizeInit /\ [][SanitizeNext]_vars

\* C33: SanitizeFilename and SanitizeCategory return what they are given when
\* it is a string they have returned.
C33_Idempotent == toolRet.pc = "again" => toolRet.again = toolRet.out

\* "a//a" becomes "a/a" as a category, and "a/a" stays
C33_Witness ==
    /\ toolRet.pc = "again"
    /\ toolArgs = [fn |-> "SanitizeCategory", s |-> <<"a", "/", "/", "a">>]
    /\ toolRet.out = <<"a", "/", "a">>
    /\ toolRet.again = <<"a", "/", "a">>

\* C34: what a sanitizer returns is not empty, is made of letters, digits,
\* " ", "_", ".", "-" (and "/" for a category), has none of ".", " ", "_"
\* (nor "/" for a category) at its ends and no "__" (nor "//"); it is
\* "unnamed" when nothing of the input is left.
C34_SafeName ==
    toolRet.pc # "called" =>
        LET out == toolRet.out
            category == toolArgs.fn = "SanitizeCategory"
            ends == {".", " ", "_"} \cup (IF category THEN {"/"} ELSE {})
        IN  /\ out # <<>>
            /\ \A k \in 1..Len(out) :
                    /\ out[k] \in {"a", "u", "n", "m", "e", "d", "_", ".", " ", "/"}
                    /\ out[k] = "/" => category
            /\ out[1] \notin ends
            /\ out[Len(out)] \notin ends
            /\ ~ContainsPair(out, "_")
            /\ ~ContainsPair(out, "/")
            /\ (\A k \in 1..Len(toolArgs.s) : toolArgs.s[k] # "a")
                    <=> out = Unnamed

\* a title of which nothing is left
C34_Witness ==
    /\ toolRet.pc = "returned"
    /\ toolArgs = [fn |-> "SanitizeFilename", s |-> <<"/", ":", ".", " ">>]
    /\ toolRet.out = Unnamed

\* the files in the destination folder
FilesInFolder == {n \in DstNames : dst[n] # NoFile}

\* C35: two workers that move two source files to the same folder and name at
\* the same time, whatever the order of their steps, leave both files in the
\* folder (here: in a folder that was empty).
C35_ConcurrentMovesKeepBoth ==
    \A a, b \in Movers :
        (/\ a # b
         /\ mpc[a] = "done" /\ mpc[b] = "done"
         /\ \A c \in Movers \ {a, b} : mpc[c] = "idle"
         /\ before = 0)
        => Cardinality(FilesInFolder) = 2

\* C36: after MoveFile calls made one after the other that all returned nil,
\* the folder holds as many files more than before as there were calls.
C36_NoOverwrite ==
    (/\ \A m \in Movers : mpc[m] \in {"idle", "done"}
     /\ \A a, b \in Movers :
            (a # b /\ mpc[a] = "done" /\ mpc[b] = "done")
                => (a \in after[b] \/ b \in after[a]))
    => Cardinality(FilesInFolder)
            = before + Cardinality({m \in Movers : mpc[m] = "done"})

\* ------------------------------- processFile from Categorize to the counters
\* filepath.Base(path) of the files the walk makes jobs of: a stem of up to
\* MaxStemLen runes and one of the extensions .pdf, .txt and .md, written ".a"
MaxStemLen == 2
StemRunes == {"a", "_", ".", " ", "&"}
BaseNames ==
    {stem \o <<".", "a">> :
        stem \in UNION {[1..n -> StemRunes] : n \in 0..MaxStemLen}}

\* filepath.Ext(path): the suffix that begins at the last dot of the name
Ext(base) ==
    LET dots == {i \in 1..Len(base) : base[i] = "."}
    IN  IF dots = {} THEN <<>>
        ELSE SubSeq(base, CHOOSE i \in dots : \A k \in dots : k <= i, Len(base))

\* what the service answers to the requests of the call: two objects that
\* validate under the default registry, and a failure
ProcessReplies ==
    {[kind |-> "content", content |-> BareObject(Object("Work", "Report", 1))],
     [kind |-> "content", content |-> BareObject(Object("Misc", "a/b", 1))],
     [kind |-> "status", content |-> NoContent]}

\* a processFile that moves a file it could not classify as the fallback
\* result says
targetOfResult(err, result, base) ==
    [folder |-> result.category, name |-> <<result.title, Ext(base)>>]

\* targetFolder and targetName of processFile; name lists the strings that
\* make up targetName
Target(err, result, base) ==
    IF err = NoErr
    THEN [folder |-> result.category, name |-> <<result.title, Ext(base)>>]
    ELSE [folder |-> "Misc", name |-> <<SanitizeFilenameRunes(base)>>]

ProcessInit ==
    /\ InitRun
    /\ call = CategorizeStart
    /\ callCtx \in BOOLEAN
    /\ attempts = <<>>
    /\ InitMoveIdle
    /\ InitSetupIdle
    /\ InitParseIdle
    /\ InitSumIdle
    /\ InitBudgetIdle
    /\ toolArgs \in [base : BaseNames]
    /\ toolRet = [pc |-> "categorize"]

\* result, err := p.AI.Categorize(ctx, text)
ProcessCategorize ==
    /\ toolRet.pc = "categorize"
    /\ \E rs \in ReplySeqs(ProcessReplies) :
          call' = CategorizeLoop(call, callCtx, rs, validCategories)
    /\ toolRet' = [pc |-> "move"]
    /\ UNCHANGED <<toolArgs, callCtx, attempts, validCategories, runVars>>
    /\ idleMove
    /\ idleSetup
    /\ UNCHANGED <<parseVars, sumVars, budgetVars>>

\* fileops.MoveFile(path, finalDestDir, targetName) and the counter after it
ProcessMove ==
    /\ toolRet.pc = "move"
    /\ \E moveErr \in BOOLEAN :
        LET how == MoveCounts(call.err # NoErr, moveErr) IN
        /\ toolRet' = [pc |-> "returned",
                       target |-> Target(call.err, call.result, toolArgs.base),
                       moveErr |-> moveErr]
        /\ ProcessedFiles' = IF how = "processed" THEN ProcessedFiles + 1
                             ELSE ProcessedFiles
        /\ FailedFiles' = IF how = "failed" THEN FailedFiles + 1
                          ELSE FailedFiles
    /\ UNCHANGED <<ctxDone, scanVars, jobs, TotalFiles, workerVars>>
    /\ UNCHANGED <<toolArgs, catVars>>
    /\ idleMove
    /\ idleSetup
    /\ UNCHANGED <<parseVars, sumVars, budgetVars>>

ProcessNext == ProcessCategorize \/ ProcessMove

ProcessSpec == ProcessInit /\ [][ProcessNext]_vars

\* C38: processFile hands MoveFile the folder of the result's category and the
\* result's title with the extension of the file when Categorize returned no
\* error, and the folder Misc and the sanitized name of the file, nothing of
\* the fallback result, when it returned one; either way the file counts as
\* processed when MoveFile returns nil and as failed when it does not.
C38_Destination ==
    toolRet.pc = "returned" =>
        /\ call.err = NoErr =>
              /\ toolRet.target.folder = call.result.category
              /\ toolRet.target.name = <<call.result.title, <<".", "a">>>>
              /\ call.result.category \in Members(validCategories)
        /\ call.err # NoErr =>
              /\ toolRet.target.folder = "Misc"
              /\ toolRet.target.name = <<SanitizeFilenameRunes(toolArgs.base)>>
        /\ ProcessedFiles = (IF toolRet.moveErr THEN 0 ELSE 1)
        /\ FailedFiles = (IF toolRet.moveErr THEN 1 ELSE 0)

\* the file "&a.a" could not be classified and has been moved to Misc as
\* "a.a": it counts as processed
C38_Witness ==
    /\ toolRet.pc = "returned"
    /\ call.err # NoErr
    /\ call.result = FallbackResult
    /\ toolArgs.base = <<"&", "a", ".", "a">>
    /\ toolRet.target = [folder |-> "Misc", name |-> <<<<"a", ".", "a">>>>]
    /\ ~toolRet.moveErr
    /\ ProcessedFiles = 1

====
